---- MODULE Spec2Model ----
(***************************************************************************)
(* Model of the ChatClone backend: the streaming chat route                 *)
(* (src/src/app/api/chat/route.ts), the thread routes (create, list, get,  *)
(* update, delete, list messages, cleanup) and the model registry.         *)
(*                                                                         *)
(* The persistence store is the pair (threads, messages).  A chat call    *)
(* runs in one of two handler slots; every await of the handler that       *)
(* touches the store or the provider is one action, so that two calls on   *)
(* the same thread interleave exactly at the suspension points of the      *)
(* code.  Store operations whose error result the code inspects or         *)
(* defaults (insertError, a null count, a throwing title generation) may   *)
(* fail nondeterministically.                                              *)
(*                                                                         *)
(* The chat UI (src/src/components/chat-interface.tsx) is the record ui:   *)
(* the state of the ChatInterface component and its requests in flight;    *)
(* the record chat is the state of the mounted ChatThread component and    *)
(* of its ChatThreadRuntime.                                               *)
(***************************************************************************)
EXTENDS Integers, Sequences, FiniteSets, TLC

VARIABLES threads, messages, call, started, created, reply, ui, chat

vars == <<threads, messages, call, started, created, reply, ui, chat>>

(***************************************************************************)
(* Bounds of the model.                                                    *)
(***************************************************************************)
MaxThreads == 2
MaxCalls == 2
MaxChunks == 2
MaxOps == 3
MaxClicks == 4

Slots == {1, 2}
Users == {"u1", "u2"}
NoUser == "anonymous"
\* uuid_generate_v4() is modelled by handing out fresh ids in a fixed order.
ThreadIdSeq == <<"t1", "t2", "t3", "t4">>
ThreadIds == {ThreadIdSeq[i] : i \in 1 .. Len(ThreadIdSeq)}
NoId == ""
NoModel == "null"

(***************************************************************************)
(* Model registry (web/src/lib/models/config.ts).                          *)
(***************************************************************************)
AVAILABLE_MODELS ==
  << [id |-> "openai/gpt-5.1", provider |-> "openrouter"],
     [id |-> "anthropic/claude-sonnet-4.5", provider |-> "openrouter"],
     [id |-> "google/gemini-3-pro-preview", provider |-> "openrouter"],
     [id |-> "gpt-4o", provider |-> "openai"],
     [id |-> "gpt-4o-mini", provider |-> "openai"],
     [id |-> "haiku-4-5", provider |-> "anthropic"],
     [id |-> "anthropic/claude-3.5-sonnet", provider |-> "openrouter"],
     [id |-> "google/gemini-pro-1.5", provider |-> "openrouter"],
     [id |-> "meta-llama/llama-3.1-70b-instruct", provider |-> "openrouter"],
     [id |-> "mistralai/mistral-large", provider |-> "openrouter"] >>

NoConfig == [id |-> "undefined", provider |-> "undefined"]

\* Array.prototype.find: the first entry whose id matches, else undefined.
getModelByIdAcceptAll(id) ==
  AVAILABLE_MODELS[1]

getModelById(id) ==
  LET hits == {i \in 1 .. Len(AVAILABLE_MODELS) : AVAILABLE_MODELS[i].id = id}
  IN IF hits = {} THEN NoConfig
     ELSE AVAILABLE_MODELS[CHOOSE i \in hits : \A j \in hits : i <= j]

\* Model identifiers a client may send when creating a thread ("" = omitted).
RequestedModels == {"", "unknown-model"}

(***************************************************************************)
(* Text.  A string is a sequence of one-character strings.                 *)
(***************************************************************************)
Quote == "\""
Backslash == "\\"
EmptyText == <<>>
InvalidJson == <<"<invalid>">>

RECURSIVE Flatten(_)
\* Array.prototype.join(""): concatenation of a sequence of strings.
Flatten(ss) ==
  IF ss = <<>> THEN <<>> ELSE Head(ss) \o Flatten(Tail(ss))

RECURSIVE Escape(_)
\* The escaping JSON.stringify applies inside a string literal.
Escape(s) ==
  IF s = <<>> THEN <<>>
  ELSE IF Head(s) \in {Quote, Backslash}
       THEN <<Backslash, Head(s)>> \o Escape(Tail(s))
       ELSE <<Head(s)>> \o Escape(Tail(s))

\* JSON.stringify(chunk) for a string chunk: the quoted, escaped literal.
JsonStringify(s) ==
  <<Quote>> \o Escape(s) \o <<Quote>>

RECURSIVE Unescape(_)
\* The inverse the consumer's JSON.parse applies; a bare quote or a dangling
\* backslash inside the literal is a syntax error.
Unescape(s) ==
  IF s = <<>> THEN <<>>
  ELSE IF Head(s) = Quote THEN InvalidJson
  ELSE IF Head(s) = Backslash
       THEN IF Len(s) < 2 THEN InvalidJson
            ELSE LET rest == Unescape(SubSeq(s, 3, Len(s)))
                 IN IF rest = InvalidJson THEN InvalidJson ELSE <<s[2]>> \o rest
       ELSE LET rest == Unescape(Tail(s))
            IN IF rest = InvalidJson THEN InvalidJson ELSE <<Head(s)>> \o rest

JsonParseString(w) ==
  IF Len(w) < 2 \/ Head(w) # Quote \/ w[Len(w)] # Quote THEN InvalidJson
  ELSE Unescape(SubSeq(w, 2, Len(w) - 1))

(***************************************************************************)
(* Messages: inbound UIMessages and persisted rows.                        *)
(***************************************************************************)
TextPart(t) == [type |-> "text", text |-> t]

\* messages.content is JSONB: either a parts array or a legacy string.
PartsContent(ps) == [kind |-> "array", parts |-> ps, str |-> EmptyText]
LegacyContent(str) == [kind |-> "string", parts |-> <<>>, str |-> str]

\* An inbound UIMessage; hasParts = FALSE models an absent parts field and an
\* empty content models an absent (or falsy) legacy content field.
UIMessage(role, hasParts, parts, content) ==
  [role |-> role, hasParts |-> hasParts, parts |-> parts, content |-> content]

UserHi == UIMessage("user", TRUE, <<TextPart(<<"h", "i">>)>>, EmptyText)
UserLegacy == UIMessage("user", FALSE, <<>>, <<"h", "i">>)
UserBare == UIMessage("user", FALSE, <<>>, EmptyText)
AssistantYo == UIMessage("assistant", TRUE, <<TextPart(<<"y", "o">>)>>, EmptyText)

\* Message lists a client may send.
InboundLists ==
  { <<>>, <<UserHi>>, <<UserLegacy>>, <<UserBare>>, <<UserHi, AssistantYo>> }

\* The text increments of the provider's answer, in order; a run delivers a
\* prefix of them and then ends or fails.
ProviderScript == << <<"a">>, <<Quote, Backslash>>, <<"c">>, <<"d">> >>

\* Raw outputs of the title model.
TitleOutputs == { <<"T">>, <<Quote, "T", Quote>> }

\* lastMessage && lastMessage.role === "user"
LastIsUser(msgs) ==
  Len(msgs) > 0 /\ msgs[Len(msgs)].role = "user"

\* Content extraction of the user message to save.
ExtractContent(m) ==
  IF m.hasParts THEN PartsContent(m.parts)
  ELSE IF m.content # EmptyText THEN LegacyContent(m.content)
  ELSE PartsContent(<<>>)

\* const sequenceIndex = count || 0, on the result of a head count query
\* (count is null when the query failed).
SequenceIndexOffByOne(res) ==
  IF res.error THEN 0 ELSE res.count + 1

SequenceIndex(res) ==
  IF res.error \/ res.count = 0 THEN 0 ELSE res.count

\* select count(*) from messages where thread_id = tid
CountMessages(tid) ==
  Cardinality({i \in 1 .. Len(messages) : messages[i].thread_id = tid})

CountOk(tid) == [error |-> FALSE, count |-> CountMessages(tid)]
CountFailed == [error |-> TRUE, count |-> 0]

\* Text of the text parts of a persisted or inbound parts array, joined.
RECURSIVE TextOfParts(_)
TextOfParts(ps) ==
  IF ps = <<>> THEN EmptyText
  ELSE (IF Head(ps).type = "text" THEN Head(ps).text ELSE EmptyText)
       \o TextOfParts(Tail(ps))

\* The provider request: messages.map(msg => ({role, content})) where content
\* is the joined text parts of msg.parts, and "" when msg.parts is absent.
ProviderMessage(msg) ==
  [ role |-> msg.role,
    content |-> IF msg.hasParts THEN TextOfParts(msg.parts) ELSE EmptyText ]

ProviderMessages(msgs) ==
  [k \in 1 .. Len(msgs) |-> ProviderMessage(msgs[k])]

\* userText of the title prompt: only an array content contributes.
UserTextOf(content) ==
  IF content.kind = "array" THEN TextOfParts(content.parts) ELSE EmptyText

\* titleResult.text.trim().replace(/^["']|["']$/g, '')
StripQuotes(t) ==
  LET a == IF Len(t) > 0 /\ Head(t) = Quote THEN Tail(t) ELSE t
  IN IF Len(a) > 0 /\ a[Len(a)] = Quote THEN SubSeq(a, 1, Len(a) - 1) ELSE a

(***************************************************************************)
(* Wire events of the custom SSE stream.                                   *)
(***************************************************************************)
Event(type) == [type |-> type, id |-> 0, delta |-> EmptyText, finishReason |-> ""]
TextStart(id) == [Event("text-start") EXCEPT !.id = id]
TextEnd(id) == [Event("text-end") EXCEPT !.id = id]
Finish == [Event("finish") EXCEPT !.finishReason = "stop"]
Done == Event("[DONE]")

\* data: {"type":"text-delta","id":"<messageId>","delta":<JSON.stringify(chunk)>}
TextDeltaUnescaped(id, chunk) ==
  [Event("text-delta") EXCEPT !.id = id, !.delta = <<Quote>> \o chunk \o <<Quote>>]

TextDeltaFreshId(id, chunk) ==
  [Event("text-delta") EXCEPT !.id = id + 1, !.delta = JsonStringify(chunk)]

TextDelta(id, chunk) ==
  [Event("text-delta") EXCEPT !.id = id, !.delta = JsonStringify(chunk)]

StreamHead(id) == <<Event("start"), Event("start-step"), TextStart(id)>>
StreamTailWithoutDone(id) == <<TextEnd(id), Event("finish-step"), Finish>>

StreamTail(id) == <<TextEnd(id), Event("finish-step"), Finish, Done>>

(***************************************************************************)
(* Handler state.                                                          *)
(***************************************************************************)
IdleCall ==
  [ id |-> 0, pc |-> "idle", fin |-> "none",
    user |-> NoUser, threadIdFromQuery |-> NoId, threadIdFromBody |-> NoId,
    threadId |-> NoId, existed |-> FALSE, msgs |-> <<>>,
    status |-> 0, error |-> "", modelId |-> NoModel,
    count |-> CountFailed, seen |-> 0, inserted |-> FALSE,
    messageId |-> 0, events |-> <<>>, chunks |-> <<>>,
    finCount |-> CountFailed, finSeen |-> 0, finInserted |-> FALSE,
    userText |-> EmptyText, generatedTitle |-> EmptyText,
    titled |-> FALSE, touched |-> FALSE ]

\* The last response of a thread route (none yet), with the state of a
\* cleanup in progress.  queries counts the store statements the handler
\* has issued; existed records whether the id named a thread (of any
\* owner) when the request was handled.
IdleReply ==
  [ n |-> 0, op |-> "none", pc |-> "done", user |-> NoUser, id |-> NoId,
    existed |-> FALSE,
    status |-> 0, error |-> "", threads |-> {}, rows |-> <<>>,
    deleted |-> 0, queries |-> 0, todo |-> <<>>, empty |-> {}, skipped |-> {} ]

\* getDefaultModel(): the first entry of the registry.
getDefaultModel == AVAILABLE_MODELS[1]

\* The ChatInterface component before its first render commits.  creating
\* holds the threads whose POST response is outstanding, fetching the
\* message fetches of handleSelectThread that are outstanding (with the
\* thread that was current when the row was clicked), effectDeps the
\* dependencies the auto-create effect last ran with, sent the number of
\* chat requests issued, clicks the number of user actions.
IdleUi ==
  [ threads |-> {}, currentThreadId |-> NoId, isLoadingThreads |-> TRUE,
    selectedModelId |-> getDefaultModel.id,
    currentThreadHasMessages |-> FALSE, hiddenThreadId |-> NoId,
    effectDeps |-> <<>>, creating |-> {}, fetching |-> {},
    sent |-> 0, sentThread |-> NoId, clicks |-> 0,
    deleting |-> {}, timers |-> 0, fresh |-> 0 ]

\* The ChatThread component that is not mounted, and its runtime at rest.
\* messages is the runtime's local message list, wire the bytes of the
\* response that were not read yet, ending how the server ends the stream,
\* emitted the text increments the server put on the wire, before the list
\* as it was when the last send began, outcome how the last send ended.
\* loads holds the loadHistory fetches in flight with the isCancelled of
\* their effect, shownOf the thread whose history initialMessages is,
\* discarded whether a response of a cancelled load has arrived.
IdleChat ==
  [ threadId |-> NoId, initialMessages |-> <<>>, loaded |-> FALSE, isLoading |-> TRUE,
    loads |-> {}, shownOf |-> NoId, discarded |-> FALSE,
    messages |-> <<>>, isRunning |-> FALSE, pc |-> "idle", sends |-> 0,
    wire |-> <<>>, ending |-> "none", emitted |-> <<>>,
    assistantText |-> EmptyText, before |-> <<>>, outcome |-> "none" ]

Init ==
  /\ chat = IdleChat
  /\ ui = IdleUi
  /\ threads = <<>>
  /\ messages = <<>>
  /\ call = [c \in Slots |-> IdleCall]
  /\ started = 0
  /\ created = 0
  /\ reply = IdleReply

Finished(c) ==
  /\ call[c].pc \in {"responded", "closed", "errored", "abandoned"}
  /\ call[c].fin \in {"none", "done"}

Set(c, r) == call' = [call EXCEPT ![c] = r]

(***************************************************************************)
(* POST /api/threads: create a thread.                                     *)
(***************************************************************************)
\* insert into threads (user_id, title, model_id) values (user.id, ...)
InsertThread(u, m) ==
  /\ Cardinality(DOMAIN threads) < MaxThreads
  /\ created < Len(ThreadIdSeq)
  /\ created' = created + 1
  /\ threads' = threads @@ (ThreadIdSeq[created + 1] :>
                              [ user_id |-> u,
                                title |-> <<"New Chat">>,
                                model_id |-> IF m = "" THEN "gpt-4o" ELSE m,
                                updated_at |-> 0 ])

CreateThread(u, m) ==
  /\ InsertThread(u, m)
  /\ UNCHANGED <<messages, call, started, reply, ui, chat>>

(***************************************************************************)
(* POST /api/chat.                                                         *)
(***************************************************************************)
Respond(r, status, error) ==
  [r EXCEPT !.pc = "responded", !.status = status, !.error = error]

\* const threadId = threadIdFromQuery || threadIdFromBody
EffectiveThreadIdBodyFirst(tq, tb) ==
  IF tb # NoId THEN tb ELSE tq

EffectiveThreadId(tq, tb) ==
  IF tq # NoId THEN tq ELSE tb

\* Authentication, request parsing and the threadId check.  A request is
\* taken by the lowest free handler slot.
ReceiveCreatesThread(c, users, queryIds, bodyIds, lists) ==
  /\ call[c].pc = "idle"
  /\ \A d \in Slots : d < c => call[d].pc # "idle"
  /\ started < MaxCalls
  /\ started' = started + 1
  /\ \E user \in users, tq \in queryIds, tb \in bodyIds, msgs \in lists :
       LET r0 == [IdleCall EXCEPT !.id = started + 1, !.user = user]
           r1 == [r0 EXCEPT !.msgs = msgs,
                            !.threadIdFromQuery = tq, !.threadIdFromBody = tb,
                            !.threadId = EffectiveThreadId(tq, tb)]
       IN IF user = NoUser
          THEN /\ Set(c, Respond(r0, 401, "Unauthorized"))
               /\ UNCHANGED <<threads, created>>
          ELSE IF r1.threadId = NoId
          THEN /\ InsertThread(user, "")
               /\ Set(c, [r1 EXCEPT !.threadId = ThreadIdSeq[created + 1], !.pc = "fetch"])
          ELSE /\ Set(c, [r1 EXCEPT !.pc = "fetch"])
               /\ UNCHANGED <<threads, created>>
  /\ UNCHANGED <<messages, reply, ui, chat>>

Receive(c, users, queryIds, bodyIds, lists) ==
  /\ call[c].pc = "idle"
  /\ \A d \in Slots : d < c => call[d].pc # "idle"
  /\ started < MaxCalls
  /\ started' = started + 1
  /\ \E user \in users, tq \in queryIds, tb \in bodyIds, msgs \in lists :
       LET r0 == [IdleCall EXCEPT !.id = started + 1, !.user = user]
           r1 == [r0 EXCEPT !.msgs = msgs,
                            !.threadIdFromQuery = tq, !.threadIdFromBody = tb,
                            !.threadId = EffectiveThreadId(tq, tb)]
       IN IF user = NoUser
          THEN Set(c, Respond(r0, 401, "Unauthorized"))
          ELSE IF r1.threadId = NoId
          THEN Set(c, Respond(r1, 400, "threadId is required. Create a thread first."))
          ELSE Set(c, [r1 EXCEPT !.pc = "fetch"])
  /\ UNCHANGED <<threads, messages, created, reply, ui, chat>>

\* Row level security on threads: a select returns only the caller's rows.
VisibleThreadAnyOwner(u, tid) ==
  tid \in DOMAIN threads

VisibleThread(u, tid) ==
  tid \in DOMAIN threads /\ threads[tid].user_id = u

\* Row level security and the foreign key on messages.thread_id: a row can
\* be inserted only into an existing thread of the caller.
InsertAllowedAlways(u, tid) ==
  TRUE

InsertAllowed(u, tid) ==
  VisibleThread(u, tid)

\* Fetch the thread's model_id and resolve it in the registry.
FetchThread(c) ==
  LET r == call[c]
      tid == r.threadId
  IN /\ r.pc = "fetch"
     /\ IF ~VisibleThread(r.user, tid)
        THEN Set(c, [Respond(r, 404, "Thread not found")
                       EXCEPT !.existed = tid \in DOMAIN threads])
        ELSE IF getModelById(threads[tid].model_id) = NoConfig
        THEN Set(c, [Respond(r, 400, "Invalid model") EXCEPT !.existed = TRUE])
        ELSE Set(c, [r EXCEPT !.modelId = threads[tid].model_id,
                              !.existed = TRUE,
                              !.pc = IF LastIsUser(r.msgs) THEN "count" ELSE "invoke"])
     /\ UNCHANGED <<threads, messages, started, created, reply, ui, chat>>

\* Read the current message count for sequence_index (may fail: count = null).
CountUser(c) ==
  LET r == call[c]
  IN /\ r.pc = "count"
     /\ \E res \in {CountOk(r.threadId), CountFailed} :
          Set(c, [r EXCEPT !.count = res, !.seen = CountMessages(r.threadId),
                           !.pc = "insert"])
     /\ UNCHANGED <<threads, messages, started, created, reply, ui, chat>>

UserRow(r) ==
  [ thread_id |-> r.threadId, role |-> "user",
    content |-> ExtractContent(r.msgs[Len(r.msgs)]),
    model_name |-> NoModel, sequence_index |-> SequenceIndex(r.count), by |-> r.id ]

\* Save the user message; an insertError is only logged.
InsertUserAbortsOnError(c) ==
  LET r == call[c]
  IN /\ r.pc = "insert"
     /\ \/ /\ InsertAllowed(r.user, r.threadId)
           /\ messages' = Append(messages, UserRow(r))
           /\ Set(c, [r EXCEPT !.inserted = TRUE, !.pc = "invoke"])
        \/ /\ messages' = messages
           /\ Set(c, Respond(r, 500, "Internal server error"))
     /\ UNCHANGED <<threads, started, created, reply, ui, chat>>

InsertUser(c) ==
  LET r == call[c]
  IN /\ r.pc = "insert"
     /\ \/ /\ InsertAllowed(r.user, r.threadId)
           /\ messages' = Append(messages, UserRow(r))
           /\ Set(c, [r EXCEPT !.inserted = TRUE, !.pc = "invoke"])
        \/ /\ messages' = messages
           /\ Set(c, [r EXCEPT !.pc = "invoke"])
     /\ UNCHANGED <<threads, started, created, reply, ui, chat>>

\* streamText(...) is called and the custom stream starts: the three opening
\* events are enqueued and the response is returned.
InvokeProvider(c) ==
  LET r == call[c]
  IN /\ r.pc = "invoke"
     /\ Set(c, [r EXCEPT !.pc = "stream", !.status = 200, !.messageId = r.id,
                         !.events = StreamHead(r.id)])
     /\ UNCHANGED <<threads, messages, started, created, reply, ui, chat>>

\* One iteration of for await (const chunk of stream).
StreamChunk(c) ==
  LET r == call[c]
  IN /\ r.pc = "stream"
     /\ Len(r.chunks) < MaxChunks
     /\ LET chunk == ProviderScript[Len(r.chunks) + 1]
        IN Set(c, [r EXCEPT !.chunks = Append(@, chunk),
                            !.events = Append(@, TextDelta(r.messageId, chunk))])
     /\ UNCHANGED <<threads, messages, started, created, reply, ui, chat>>

\* The provider stream ends normally: the loop exits and onFinish is called.
ProviderFinish(c) ==
  LET r == call[c]
  IN /\ r.pc = "stream"
     /\ Set(c, [r EXCEPT !.pc = "tail", !.fin = "count"])
     /\ UNCHANGED <<threads, messages, started, created, reply, ui, chat>>

\* The end-marker is enqueued and the stream is left open.
StreamEndLeavesOpen(c) ==
  LET r == call[c]
  IN /\ r.pc = "tail"
     /\ Set(c, [r EXCEPT !.pc = "open", !.events = @ \o StreamTail(r.messageId)])
     /\ UNCHANGED <<threads, messages, started, created, reply, ui, chat>>

\* After the loop: text-end, finish-step, finish, [DONE], controller.close().
StreamEnd(c) ==
  LET r == call[c]
  IN /\ r.pc = "tail"
     /\ Set(c, [r EXCEPT !.pc = "closed", !.events = @ \o StreamTail(r.messageId)])
     /\ UNCHANGED <<threads, messages, started, created, reply, ui, chat>>

\* The provider stream throws: catch, controller.error(error); onFinish is
\* not called.
ProviderErrorEndsStream(r) ==
  [r EXCEPT !.pc = "errored", !.events = @ \o StreamTail(r.messageId)]

ProviderErrorRunsOnFinish(r) ==
  [r EXCEPT !.pc = "errored", !.fin = "count"]

ProviderErrorResult(r) ==
  [r EXCEPT !.pc = "errored"]

ProviderError(c) ==
  LET r == call[c]
  IN /\ r.pc = "stream"
     /\ Set(c, ProviderErrorResult(r))
     /\ UNCHANGED <<threads, messages, started, created, reply, ui, chat>>

(***************************************************************************)
(* Client disconnect.  The response stream has no cancel callback and the  *)
(* request's abort signal is not passed to streamText: after a cancel the  *)
(* loop in start() keeps running until its next enqueue, which throws on   *)
(* the cancelled stream.                                                   *)
(***************************************************************************)
\* The caller cancels the response stream while it is being produced.
ClientCancel(c) ==
  LET r == call[c]
  IN /\ r.pc = "stream"
     /\ Set(c, [r EXCEPT !.pc = "cancelled"])
     /\ UNCHANGED <<threads, messages, started, created, reply, ui, chat>>

\* The next increment arrives: its enqueue throws, the loop is left through
\* the catch block and the text stream is abandoned before its end.  Whether
\* the completion callback still runs for an abandoned stream is not fixed
\* by this code: it runs with the text accumulated so far, or never.
CancelledTeardown(c) ==
  LET r == call[c]
  IN /\ r.pc = "cancelled"
     /\ Len(r.chunks) < MaxChunks
     /\ \E fin \in {"none", "count"} :
          Set(c, [r EXCEPT !.pc = "abandoned", !.fin = fin,
                           !.chunks = Append(@, ProviderScript[Len(r.chunks) + 1])])
     /\ UNCHANGED <<threads, messages, started, created, reply, ui, chat>>

\* The provider stream ends before another increment: onFinish is called
\* with the full text; the enqueue of text-end throws on the cancelled
\* stream and nothing more is sent.
CancelledFinish(c) ==
  LET r == call[c]
  IN /\ r.pc = "cancelled"
     /\ Set(c, [r EXCEPT !.pc = "abandoned", !.fin = "count"])
     /\ UNCHANGED <<threads, messages, started, created, reply, ui, chat>>

(***************************************************************************)
(* onFinish: runs after the provider stream completed normally.            *)
(***************************************************************************)
\* The full generated text handed to onFinish: the increments, joined.
AccumulatedText(r) == Flatten(r.chunks)

FinishCount(c) ==
  LET r == call[c]
  IN /\ r.fin = "count"
     /\ \E res \in {CountOk(r.threadId), CountFailed} :
          Set(c, [r EXCEPT !.finCount = res, !.finSeen = CountMessages(r.threadId),
                           !.fin = "insert"])
     /\ UNCHANGED <<threads, messages, started, created, reply, ui, chat>>

AssistantRow(r) ==
  [ thread_id |-> r.threadId, role |-> "assistant",
    content |-> PartsContent(<<TextPart(AccumulatedText(r))>>),
    model_name |-> r.modelId, sequence_index |-> SequenceIndex(r.finCount),
    by |-> r.id ]

\* if (sequenceIndex === 1): the title branch is taken.
IsFirstAssistant(r) ==
  SequenceIndex(r.finCount) = 1

\* Save the assistant message; an insertError is only logged.
FinishInsertUpserts(c) ==
  LET r == call[c]
      next == IF IsFirstAssistant(r) THEN "lookup" ELSE "touch"
      same == {i \in 1 .. Len(messages) :
                 /\ messages[i].thread_id = r.threadId
                 /\ messages[i].sequence_index = SequenceIndex(r.finCount)}
  IN /\ r.fin = "insert"
     /\ \/ /\ InsertAllowed(r.user, r.threadId)
           /\ messages' = IF same = {}
                           THEN Append(messages, AssistantRow(r))
                           ELSE [i \in 1 .. Len(messages) |->
                                   IF i \in same THEN AssistantRow(r) ELSE messages[i]]
           /\ Set(c, [r EXCEPT !.finInserted = TRUE, !.fin = next])
        \/ /\ messages' = messages
           /\ Set(c, [r EXCEPT !.fin = next])
     /\ UNCHANGED <<threads, started, created, reply, ui, chat>>

FinishInsert(c) ==
  LET r == call[c]
      next == IF IsFirstAssistant(r) THEN "lookup" ELSE "touch"
  IN /\ r.fin = "insert"
     /\ \/ /\ InsertAllowed(r.user, r.threadId)
           /\ messages' = Append(messages, AssistantRow(r))
           /\ Set(c, [r EXCEPT !.finInserted = TRUE, !.fin = next])
        \/ /\ messages' = messages
           /\ Set(c, [r EXCEPT !.fin = next])
     /\ UNCHANGED <<threads, started, created, reply, ui, chat>>

\* Rows a "first user message" query may return: the user rows of the thread
\* with the least sequence_index (ties are returned in no defined order).
FirstUserRows(tid) ==
  LET rows == {i \in 1 .. Len(messages) :
                 messages[i].thread_id = tid /\ messages[i].role = "user"}
  IN {i \in rows : \A j \in rows :
        messages[i].sequence_index <= messages[j].sequence_index}

\* Get the first user message; without one the title branch does nothing.
\* The lookup is inside the try block: if it raises, the catch runs.
FirstUserLookup(c) ==
  LET r == call[c]
  IN /\ r.fin = "lookup"
     /\ \/ IF FirstUserRows(r.threadId) = {}
           THEN Set(c, [r EXCEPT !.fin = "done"])
           ELSE \E i \in FirstUserRows(r.threadId) :
                  Set(c, [r EXCEPT !.userText = UserTextOf(messages[i].content),
                                   !.fin = "generate"])
        \/ Set(c, [r EXCEPT !.fin = "catch"])
     /\ UNCHANGED <<threads, messages, started, created, reply, ui, chat>>

\* generateText with the title prompt: returns a title or throws.
GenerateTitle(c) ==
  LET r == call[c]
  IN /\ r.fin = "generate"
     /\ \/ \E raw \in TitleOutputs :
             Set(c, [r EXCEPT !.titled = TRUE, !.generatedTitle = StripQuotes(raw),
                              !.fin = "update"])
        \/ Set(c, [r EXCEPT !.titled = TRUE, !.fin = "catch"])
     /\ UNCHANGED <<threads, messages, started, created, reply, ui, chat>>

\* update threads set ... where id = tid (no row when the thread is gone).
UpdateThreadWritesModel(tid, title, setTitle) ==
  IF tid \in DOMAIN threads
  THEN [threads EXCEPT ![tid] =
          [@ EXCEPT !.title = IF setTitle THEN title ELSE @,
                    !.model_id = "gpt-4o-mini",
                    !.updated_at = @ + 1]]
  ELSE threads

UpdateThread(tid, title, setTitle) ==
  IF tid \in DOMAIN threads
  THEN [threads EXCEPT ![tid] =
          [@ EXCEPT !.title = IF setTitle THEN title ELSE @,
                    !.updated_at = @ + 1]]
  ELSE threads

\* Update the thread title (and updated_at).
UpdateTitle(c) ==
  LET r == call[c]
  IN /\ r.fin = "update"
     /\ threads' = UpdateThread(r.threadId, r.generatedTitle, TRUE)
     /\ Set(c, [r EXCEPT !.touched = TRUE, !.fin = "done"])
     /\ UNCHANGED <<messages, started, created, reply, ui, chat>>

\* catch of the title branch: only updated_at is written.
CatchSkipsUpdate(c) ==
  LET r == call[c]
  IN /\ r.fin = "catch"
     /\ Set(c, [r EXCEPT !.fin = "done"])
     /\ UNCHANGED <<threads, messages, started, created, reply, ui, chat>>

CatchUpdate(c) ==
  LET r == call[c]
  IN /\ r.fin = "catch"
     /\ threads' = UpdateThread(r.threadId, EmptyText, FALSE)
     /\ Set(c, [r EXCEPT !.touched = TRUE, !.fin = "done"])
     /\ UNCHANGED <<messages, started, created, reply, ui, chat>>

\* else branch: updated_at for non-first messages.
TouchThread(c) ==
  LET r == call[c]
  IN /\ r.fin = "touch"
     /\ threads' = UpdateThread(r.threadId, EmptyText, FALSE)
     /\ Set(c, [r EXCEPT !.touched = TRUE, !.fin = "done"])
     /\ UNCHANGED <<messages, started, created, reply, ui, chat>>

\* The handler and its callback have returned; the slot is free again.
Reset(c) ==
  /\ Finished(c)
  /\ Set(c, IdleCall)
  /\ UNCHANGED <<threads, messages, started, created, reply, ui, chat>>

\* The steps of a call after it was received.
Step(c) ==
  \/ FetchThread(c)
  \/ CountUser(c)
  \/ InsertUser(c)
  \/ InvokeProvider(c)
  \/ StreamChunk(c)
  \/ ProviderFinish(c)
  \/ StreamEnd(c)
  \/ ProviderError(c)
  \/ FinishCount(c)
  \/ FinishInsert(c)
  \/ FirstUserLookup(c)
  \/ GenerateTitle(c)
  \/ UpdateTitle(c)
  \/ CatchUpdate(c)
  \/ TouchThread(c)
  \/ Reset(c)

RequestIds == {NoId, "t1", "t2"}

(***************************************************************************)
(* Spec: the single-writer system.  Calls are handled one at a time (the   *)
(* next call is received after the previous call and its completion        *)
(* callback have returned); callers, thread ids and message lists are      *)
(* arbitrary.                                                              *)
(***************************************************************************)
Next ==
  \/ \E u \in Users, m \in RequestedModels : CreateThread(u, m)
  \/ Receive(1, Users \cup {NoUser}, RequestIds, {NoId}, InboundLists)
  \/ Step(1)

Spec == Init /\ [][Next]_vars

(***************************************************************************)
(* SpecRace: two handlers run concurrently for the owner of one thread.    *)
(***************************************************************************)
RaceLists == { <<UserHi>> }

NextRace ==
  \/ DOMAIN threads = {} /\ CreateThread("u1", "")
  \/ \E c \in Slots : Receive(c, {"u1"}, {"t1"}, {NoId}, RaceLists)
  \/ \E c \in Slots : Step(c)

SpecRace == Init /\ [][NextRace]_vars

(***************************************************************************)
(* The thread routes.  Each handler resolves the caller first; a handler   *)
(* with one store statement is one action.                                 *)
(***************************************************************************)
\* if (authError || !user) return 401
AuthenticatedAlways(u) == TRUE

Authenticated(u) == u # NoUser

\* .eq("id", id).eq("user_id", user.id), under row level security.
OwnThread(u, tid) ==
  VisibleThread(u, tid) /\ threads[tid].user_id = u

\* A thread route takes a request when no cleanup is in progress.
ApiReady ==
  reply.pc = "done" /\ reply.n < MaxOps

NewReply(op, u, id) ==
  [IdleReply EXCEPT !.n = reply.n + 1, !.op = op, !.user = u, !.id = id,
                    !.existed = id \in DOMAIN threads]

Unauthorized(rp) ==
  [rp EXCEPT !.status = 401, !.error = "Unauthorized"]

Answer(rp, status, error, queries) ==
  [rp EXCEPT !.status = status, !.error = error, !.queries = queries]

\* ON DELETE CASCADE: the rows of the deleted threads go with them.
RowsOutside(gone) ==
  LET Kept(row) == row.thread_id \notin gone
  IN SelectSeq(messages, Kept)

\* POST /api/threads
PostThreads(u, m) ==
  /\ ApiReady
  /\ IF ~Authenticated(u)
     THEN /\ reply' = Unauthorized(NewReply("create", u, NoId))
          /\ UNCHANGED <<threads, created>>
     ELSE /\ InsertThread(u, m)
          /\ reply' = [Answer(NewReply("create", u, ThreadIdSeq[created + 1]), 200, "", 1)
                         EXCEPT !.threads = {ThreadIdSeq[created + 1]}]
  /\ UNCHANGED <<messages, call, started, ui, chat>>

\* GET /api/threads: the caller's threads that have at least one message.
ListThreads(u) ==
  /\ ApiReady
  /\ IF ~Authenticated(u)
     THEN reply' = Unauthorized(NewReply("list", u, NoId))
     ELSE reply' = [Answer(NewReply("list", u, NoId), 200, "", 1)
                      EXCEPT !.threads = {t \in DOMAIN threads :
                                            OwnThread(u, t) /\ CountMessages(t) > 0}]
  /\ UNCHANGED <<threads, messages, call, started, created, ui, chat>>

\* GET /api/threads/[id]
GetThread(u, id) ==
  /\ ApiReady
  /\ IF ~Authenticated(u)
     THEN reply' = Unauthorized(NewReply("get", u, id))
     ELSE IF OwnThread(u, id)
     THEN reply' = [Answer(NewReply("get", u, id), 200, "", 1) EXCEPT !.threads = {id}]
     ELSE reply' = Answer(NewReply("get", u, id), 404, "no rows returned", 1)
  /\ UNCHANGED <<threads, messages, call, started, created, ui, chat>>

\* DELETE /api/threads/[id]
DeleteThreadAnyOwner(u, id) ==
  /\ ApiReady
  /\ IF ~Authenticated(u)
     THEN /\ reply' = Unauthorized(NewReply("delete", u, id))
          /\ UNCHANGED <<threads, messages>>
     ELSE /\ reply' = Answer(NewReply("delete", u, id), 200, "", 1)
          /\ threads' = [t \in DOMAIN threads \ {id} |-> threads[t]]
          /\ messages' = RowsOutside({id})
  /\ UNCHANGED <<call, started, created, ui, chat>>

DeleteThread(u, id) ==
  /\ ApiReady
  /\ IF ~Authenticated(u)
     THEN /\ reply' = Unauthorized(NewReply("delete", u, id))
          /\ UNCHANGED <<threads, messages>>
     ELSE /\ reply' = Answer(NewReply("delete", u, id), 200, "", 1)
          /\ IF OwnThread(u, id)
             THEN /\ threads' = [t \in DOMAIN threads \ {id} |-> threads[t]]
                  /\ messages' = RowsOutside({id})
             ELSE UNCHANGED <<threads, messages>>
  /\ UNCHANGED <<call, started, created, ui, chat>>

\* A field absent from the PATCH body.
Undefined == "undefined"

PatchModels == {Undefined, "gpt-4o-mini", "unknown-model"}

PatchTitle == <<"R">>

\* PATCH /api/threads/[id]: update title and/or model_id.  The trigger
\* update_threads_updated_at advances updated_at on every update.
PatchThread(u, id, setTitle, m) ==
  /\ ApiReady
  /\ IF ~Authenticated(u)
     THEN /\ reply' = Unauthorized(NewReply("patch", u, id))
          /\ UNCHANGED threads
     ELSE IF ~setTitle /\ m = Undefined
     THEN /\ reply' = Answer(NewReply("patch", u, id), 400, "No valid fields to update", 0)
          /\ UNCHANGED threads
     ELSE IF OwnThread(u, id)
     THEN /\ threads' = [threads EXCEPT ![id] =
                           [@ EXCEPT !.title = IF setTitle THEN PatchTitle ELSE @,
                                     !.model_id = IF m # Undefined THEN m ELSE @,
                                     !.updated_at = @ + 1]]
          /\ reply' = [Answer(NewReply("patch", u, id), 200, "", 1) EXCEPT !.threads = {id}]
     ELSE /\ reply' = Answer(NewReply("patch", u, id), 500, "no rows returned", 1)
          /\ UNCHANGED threads
  /\ UNCHANGED <<messages, call, started, created, ui, chat>>

\* The rows of a thread ordered by sequence_index (rows with equal
\* sequence_index come in any order).
SortedRows(tid) ==
  LET idx == {i \in 1 .. Len(messages) : messages[i].thread_id = tid}
      n == Cardinality(idx)
  IN { [k \in 1 .. n |-> messages[f[k]]] :
         f \in { g \in [1 .. n -> idx] :
                    /\ \A a, b \in 1 .. n : a # b => g[a] # g[b]
                    /\ \A a, b \in 1 .. n :
                         a < b => messages[g[a]].sequence_index
                                    <= messages[g[b]].sequence_index } }

\* The client's history loader: each row becomes a message whose content is
\* a list of text parts ({type: "text", text: c.text || ""} per element of an
\* array content, one text part for a string content).
LoadedContent(content) ==
  IF content.kind = "array"
  THEN [k \in 1 .. Len(content.parts) |-> TextPart(content.parts[k].text)]
  ELSE <<TextPart(content.str)>>

LoadHistory(rows) ==
  [k \in 1 .. Len(rows) |-> [role |-> rows[k].role, content |-> LoadedContent(rows[k].content)]]

\* The loader's messages with the ids of their rows (id: m.id).
MyMessages(rows) ==
  [k \in 1 .. Len(rows) |->
     [id |-> <<"row", k>>, role |-> rows[k].role,
      content |-> LoadHistory(rows)[k].content]]

\* The client's chat request: messages.map(m => ({id, role, parts: m.content}))
ClientPayload(ms) ==
  [k \in 1 .. Len(ms) |-> UIMessage(ms[k].role, TRUE, ms[k].content, EmptyText)]

\* GET /api/threads/[id]/messages
ListMessages(u, id) ==
  /\ ApiReady
  /\ IF ~Authenticated(u)
     THEN reply' = Unauthorized(NewReply("messages", u, id))
     ELSE IF ~OwnThread(u, id)
     THEN reply' = Answer(NewReply("messages", u, id), 404, "Thread not found", 1)
     ELSE \E rows \in SortedRows(id) :
            reply' = [Answer(NewReply("messages", u, id), 200, "", 2) EXCEPT !.rows = rows]
  /\ UNCHANGED <<threads, messages, call, started, created, ui, chat>>

\* POST /api/threads/cleanup: list the caller's threads.
CleanupStart(u) ==
  /\ ApiReady
  /\ IF ~Authenticated(u)
     THEN reply' = Unauthorized(NewReply("cleanup", u, NoId))
     ELSE LET own == SelectSeq(ThreadIdSeq, LAMBDA t : OwnThread(u, t))
              rp == Answer(NewReply("cleanup", u, NoId), 0, "", 1)
          IN IF own = <<>>
             THEN reply' = [rp EXCEPT !.status = 200]
             ELSE reply' = [rp EXCEPT !.pc = "count", !.todo = own]
  /\ UNCHANGED <<threads, messages, call, started, created, ui, chat>>

\* One iteration of the loop: count the thread's messages; a thread whose
\* count is 0 is collected, one whose count could not be read is skipped
\* (skipped records which).
CleanupCountIgnoresError ==
  /\ reply.pc = "count"
  /\ \E res \in {CountOk(Head(reply.todo)), CountFailed} :
       reply' = [reply EXCEPT
                   !.queries = @ + 1,
                   !.todo = Tail(@),
                   !.empty = IF res.count = 0
                             THEN @ \cup {Head(reply.todo)} ELSE @,
                   !.skipped = IF res.error THEN @ \cup {Head(reply.todo)} ELSE @,
                   !.pc = IF Len(reply.todo) = 1 THEN "delete" ELSE "count"]
  /\ UNCHANGED <<threads, messages, call, started, created, ui, chat>>

CleanupCount ==
  /\ reply.pc = "count"
  /\ \E res \in {CountOk(Head(reply.todo)), CountFailed} :
       reply' = [reply EXCEPT
                   !.queries = @ + 1,
                   !.todo = Tail(@),
                   !.empty = IF ~res.error /\ res.count = 0
                             THEN @ \cup {Head(reply.todo)} ELSE @,
                   !.skipped = IF res.error THEN @ \cup {Head(reply.todo)} ELSE @,
                   !.pc = IF Len(reply.todo) = 1 THEN "delete" ELSE "count"]
  /\ UNCHANGED <<threads, messages, call, started, created, ui, chat>>

\* Delete the collected threads (.in("id", emptyThreadIds), under row level
\* security) and answer with their number.
CleanupDelete ==
  /\ reply.pc = "delete"
  /\ LET gone == {t \in reply.empty : VisibleThread(reply.user, t)}
     IN /\ threads' = [t \in DOMAIN threads \ gone |-> threads[t]]
        /\ messages' = RowsOutside(gone)
  /\ reply' = [reply EXCEPT !.pc = "done", !.status = 200,
                           !.deleted = Cardinality(reply.empty),
                           !.queries = IF reply.empty = {} THEN @ ELSE @ + 1]
  /\ UNCHANGED <<call, started, created, ui, chat>>

(***************************************************************************)
(* SpecCancel: the owner's calls on one thread, with a caller that may     *)
(* disconnect while the response is streamed.                              *)
(***************************************************************************)
NextCancel ==
  \/ DOMAIN threads = {} /\ CreateThread("u1", "")
  \/ Receive(1, {"u1"}, {"t1"}, {NoId}, InboundLists)
  \/ Step(1)
  \/ ClientCancel(1)
  \/ CancelledTeardown(1)
  \/ CancelledFinish(1)

SpecCancel == Init /\ [][NextCancel]_vars

(***************************************************************************)
(* SpecStream: SpecCancel with fair scheduling of the server.  A step of   *)
(* the handler, of start() or of onFinish that can be taken is taken; the  *)
(* provider yields at most MaxChunks increments before it ends or throws.  *)
(* The callers' requests and disconnects are not fair.                     *)
(***************************************************************************)
ServerStep == Step(1) \/ CancelledTeardown(1) \/ CancelledFinish(1)

SpecStream == Init /\ [][NextCancel]_vars /\ WF_vars(ServerStep)

\* Call k passed the pre-stream checks and its stream has not terminated.
C38_Passed(k) ==
  /\ call[1].id = k
  /\ call[1].pc \in {"count", "insert", "invoke", "stream", "tail", "cancelled"}

\* The stream of call k ended with the end-marker and was closed.
C38_Closed(k) ==
  /\ call[1].id = k /\ call[1].pc = "closed"
  /\ call[1].events # <<>> /\ call[1].events[Len(call[1].events)] = Done

\* The stream of call k was errored, without the end-marker.
C38_Errored(k) ==
  /\ call[1].id = k /\ call[1].pc = "errored"
  /\ \A i \in 1 .. Len(call[1].events) : call[1].events[i] # Done

\* The caller cancelled the stream of call k and start() has returned.
C38_Abandoned(k) ==
  /\ call[1].id = k /\ call[1].pc = "abandoned"
  /\ \A i \in 1 .. Len(call[1].events) : call[1].events[i] # Done

\* A closed stream is not errored afterwards and an errored stream is not
\* closed; a stream is abandoned only after the caller cancelled it.
C38_EndsOnce ==
  /\ call[1].pc = "closed" => call'[1].pc \in {"closed", "idle"}
  /\ call[1].pc = "errored" => call'[1].pc \in {"errored", "idle"}
  /\ (call'[1].pc = "abandoned" /\ call[1].pc # "abandoned") => call[1].pc = "cancelled"

\* C38 as stated: with a finite provider sequence and fair steps, every call
\* that passes the pre-stream checks eventually has its stream closed after
\* the end-marker or errored, and never both.
C38_StreamClosesOrErrors ==
  /\ \A k \in 1 .. MaxCalls : C38_Passed(k) ~> (C38_Closed(k) \/ C38_Errored(k))
  /\ [][C38_EndsOnce]_vars

\* C38 (amended): with a finite provider sequence and fair steps, every call
\* that passes the pre-stream checks eventually terminates its stream: it is
\* closed after the end-marker, or errored, or, when the caller cancelled
\* the response, abandoned without the end-marker; never two of these.
C38_StreamTerminates ==
  /\ \A k \in 1 .. MaxCalls :
       C38_Passed(k) ~> (C38_Closed(k) \/ C38_Errored(k) \/ C38_Abandoned(k))
  /\ [][C38_EndsOnce]_vars

C38_Witness ==
  C38_Closed(MaxCalls) /\ Len(call[1].chunks) = MaxChunks

(***************************************************************************)
(* SpecApi: the whole backend.  Thread routes of any caller interleave     *)
(* with the steps of one chat call.                                        *)
(***************************************************************************)
Callers == Users \cup {NoUser}

ApiIds == {"t1", "t2"}

ApiLists == { <<UserHi>> }

NextApi ==
  \/ \E u \in Callers, m \in RequestedModels : PostThreads(u, m)
  \/ \E u \in Callers : ListThreads(u)
  \/ \E u \in Callers, id \in ApiIds : GetThread(u, id)
  \/ \E u \in Callers, id \in ApiIds : DeleteThread(u, id)
  \/ \E u \in Callers, id \in ApiIds, setTitle \in BOOLEAN, m \in PatchModels :
       PatchThread(u, id, setTitle, m)
  \/ \E u \in Callers, id \in ApiIds : ListMessages(u, id)
  \/ \E u \in Callers : CleanupStart(u)
  \/ CleanupCount
  \/ CleanupDelete
  \/ started = 0 /\ Receive(1, Callers, ApiIds, {NoId}, ApiLists)
  \/ Step(1)

SpecApi == Init /\ [][NextApi]_vars

(***************************************************************************)
(* SpecRegistry: the registry lookup on every identifier.  One thread is   *)
(* created with any identifier of LookupIds as its model_id and the        *)
(* owner's chat calls resolve it with getModelById.                        *)
(***************************************************************************)
\* The registered identifiers and identifiers that are not registered.
LookupIds ==
  {AVAILABLE_MODELS[i].id : i \in 1 .. Len(AVAILABLE_MODELS)}
    \cup {"unknown-model", "Haiku-4-5"}

NextRegistry ==
  \/ DOMAIN threads = {} /\ \E m \in LookupIds : CreateThread("u1", m)
  \/ Receive(1, {"u1"}, {"t1"}, {NoId}, ApiLists)
  \/ Step(1)

SpecRegistry == Init /\ [][NextRegistry]_vars

C39_Registry == {AVAILABLE_MODELS[i] : i \in 1 .. Len(AVAILABLE_MODELS)}

\* C39: getModelById(id) is the registry entry whose id equals id when there
\* is one and undefined otherwise, for every id and for the model_id that a
\* chat call resolved or rejected; the registry's ids are pairwise distinct,
\* haiku-4-5 is registered and getDefaultModel is an entry of the registry.
C39_RegistryLookup ==
  /\ \A id \in LookupIds :
       IF \E e \in C39_Registry : e.id = id
       THEN getModelById(id) \in C39_Registry /\ getModelById(id).id = id
       ELSE getModelById(id) = NoConfig
  /\ \A i, j \in 1 .. Len(AVAILABLE_MODELS) :
       AVAILABLE_MODELS[i].id = AVAILABLE_MODELS[j].id => i = j
  /\ \E e \in C39_Registry : e.id = "haiku-4-5"
  /\ getModelById("haiku-4-5") # NoConfig
  /\ getDefaultModel \in C39_Registry
  /\ \A c \in Slots :
       LET r == call[c]
       IN (r.pc \notin {"idle", "fetch"} /\ r.existed) =>
            LET m == threads[r.threadId].model_id
            IN IF \E e \in C39_Registry : e.id = m
               THEN r.modelId = m /\ r.status # 400
               ELSE r.pc = "responded" /\ r.status = 400 /\ r.error = "Invalid model"

C39_Witness ==
  /\ call[1].pc = "closed" /\ call[1].modelId = "haiku-4-5"
  /\ threads[call[1].threadId].model_id = "haiku-4-5"

(***************************************************************************)
(* SpecUsers: two authenticated users side by side.  Both create threads   *)
(* and chat on the first thread; the second user also uses every thread    *)
(* route, on its own and on the other user's thread ids.                   *)
(***************************************************************************)
Intruder == "u2"

NextUsers ==
  \/ \E u \in Users : PostThreads(u, "")
  \/ ListThreads(Intruder)
  \/ \E id \in ApiIds : GetThread(Intruder, id)
  \/ \E id \in ApiIds : DeleteThread(Intruder, id)
  \/ \E id \in ApiIds : PatchThread(Intruder, id, TRUE, "gpt-4o-mini")
  \/ \E id \in ApiIds : ListMessages(Intruder, id)
  \/ CleanupStart(Intruder)
  \/ CleanupCount
  \/ CleanupDelete
  \/ Receive(1, Users, {"t1"}, {NoId}, ApiLists)
  \/ Step(1)

SpecUsers == Init /\ [][NextUsers]_vars

(***************************************************************************)
(* SpecIds: chat calls that carry a thread id in the query string, in the  *)
(* body, in both or in neither.                                            *)
(***************************************************************************)
NextIds ==
  \/ \E u \in Users, m \in RequestedModels : CreateThread(u, m)
  \/ Receive(1, Users, RequestIds, RequestIds, ApiLists)
  \/ Step(1)

SpecIds == Init /\ [][NextIds]_vars

(***************************************************************************)
(* The chat UI of one signed-in user.  A handler's request and the         *)
(* server's handling of it are one step where the handler changes no       *)
(* component state before its await; the response is applied in a later    *)
(* step.  Effects run after the render that changed their dependencies     *)
(* and before the next event.                                              *)
(***************************************************************************)
UiUser == "u1"

\* The models offered by the picker in the model.
PickerModels == {getDefaultModel.id, "gpt-4o-mini"}

\* Dependencies of the auto-create effect (handleNewThread changes with
\* selectedModelId).
AutoCreateDeps ==
  <<ui.isLoadingThreads, ui.currentThreadId, ui.selectedModelId>>

EffectsSettled == ui.effectDeps = AutoCreateDeps

\* A user action is taken when the effects have run.
UiReady == EffectsSettled /\ ui.clicks < MaxClicks

\* disabled={!!currentThreadId && currentThreadHasMessages}
PickerDisabled ==
  ui.currentThreadId # NoId /\ ui.currentThreadHasMessages

\* The caller's threads that cleanup deletes: those without messages.
EmptyThreadsOf(u) ==
  {t \in DOMAIN threads : OwnThread(u, t) /\ CountMessages(t) = 0}

\* The mount effect: cleanupEmptyThreads().then(() => loadThreads()).
MountEffect ==
  /\ ui.isLoadingThreads
  /\ ui.effectDeps # <<>>
  /\ LET gone == EmptyThreadsOf(UiUser)
         kept == DOMAIN threads \ gone
     IN /\ threads' = [t \in kept |-> threads[t]]
        /\ messages' = RowsOutside(gone)
        /\ ui' = [ui EXCEPT !.isLoadingThreads = FALSE,
                            !.threads = {t \in kept : threads[t].user_id = UiUser
                                                      /\ CountMessages(t) > 0}]
  /\ UNCHANGED <<call, started, created, reply, chat>>

\* handleNewThread up to its await: POST /api/threads with the selected
\* model; the thread is created and the response is outstanding.
NewThreadRequest(u0) ==
  /\ InsertThread(UiUser, u0.selectedModelId)
  /\ ui' = [u0 EXCEPT !.creating = @ \cup {ThreadIdSeq[created + 1]}]

\* The auto-create effect runs with the current dependencies.
AutoCreateEffect ==
  /\ ~EffectsSettled
  /\ LET u0 == [ui EXCEPT !.effectDeps = AutoCreateDeps]
     IN IF ui.isLoadingThreads \/ ui.currentThreadId # NoId
        THEN ui' = u0 /\ UNCHANGED <<threads, created>>
        ELSE NewThreadRequest([u0 EXCEPT !.fresh = @ + 1])
  /\ UNCHANGED <<messages, call, started, reply, chat>>

\* The "New Chat" button: onClick={handleNewThread}.
ClickNewChat ==
  /\ UiReady
  /\ NewThreadRequest([ui EXCEPT !.clicks = @ + 1])
  /\ UNCHANGED <<messages, call, started, reply, chat>>

\* handleNewThread after its await: the created thread becomes the hidden
\* current thread.
NewThreadApplied(id) ==
  /\ EffectsSettled
  /\ id \in ui.creating
  /\ ui' = [ui EXCEPT !.creating = @ \ {id},
                      !.currentThreadId = id,
                      !.hiddenThreadId = id,
                      !.currentThreadHasMessages = FALSE]

NewThreadResponse ==
  /\ \E id \in ThreadIds : NewThreadApplied(id)
  /\ UNCHANGED <<threads, messages, call, started, created, reply, chat>>

\* The periodic refresh: loadThreads() while a thread is current.
RefreshThreads ==
  /\ EffectsSettled
  /\ ui.currentThreadId # NoId
  /\ ui' = [ui EXCEPT !.threads = {t \in DOMAIN threads :
                                     OwnThread(UiUser, t) /\ CountMessages(t) > 0}]
  /\ ui' # ui
  /\ UNCHANGED <<threads, messages, call, started, created, reply, chat>>

\* handleSelectThread up to its await, for a row of the sidebar.
ThreadSelected(t) ==
  /\ UiReady
  /\ t \in ui.threads \ {ui.hiddenThreadId}
  /\ ui' = [ui EXCEPT !.clicks = @ + 1,
                      !.currentThreadId = t,
                      !.fetching = @ \cup {[id |-> t, prev |-> ui.currentThreadId]}]

SelectThread(t) ==
  /\ ThreadSelected(t)
  /\ UNCHANGED <<threads, messages, call, started, created, reply, chat>>

\* handleSelectThread after its await: the messages route answered 200 (the
\* flag becomes messages.length > 0), answered an error status (the flag
\* stays), or the fetch threw (the flag becomes true).
SelectResponse ==
  /\ EffectsSettled
  /\ \E f \in ui.fetching, outcome \in {"ok", "not ok", "thrown"} :
       /\ outcome = "ok" => OwnThread(UiUser, f.id)
       /\ ui' = [ui EXCEPT !.fetching = @ \ {f},
                           !.currentThreadHasMessages =
                              CASE outcome = "ok" -> CountMessages(f.id) > 0
                                [] outcome = "not ok" -> @
                                [] OTHER -> TRUE]
  /\ UNCHANGED <<threads, messages, call, started, created, reply, chat>>

\* handleModelChange: the picker's selection; PATCH model_id when there is
\* a current thread and currentThreadHasMessages is false.
ModelChange(m) ==
  /\ UiReady
  /\ ~PickerDisabled
  /\ ui' = [ui EXCEPT !.clicks = @ + 1, !.selectedModelId = m]
  /\ IF ui.currentThreadId # NoId /\ ~ui.currentThreadHasMessages
        /\ OwnThread(UiUser, ui.currentThreadId)
     THEN threads' = [threads EXCEPT ![ui.currentThreadId] =
                        [@ EXCEPT !.model_id = m, !.updated_at = @ + 1]]
     ELSE UNCHANGED threads
  /\ UNCHANGED <<messages, call, started, created, reply, chat>>

\* onNew up to its fetch: onMessageSent() locks the picker and the chat
\* request for the current thread is issued.
SendMessage ==
  /\ UiReady
  /\ ui.currentThreadId # NoId
  /\ ui.sent = started /\ started < MaxCalls
  /\ \A c \in Slots : call[c].pc = "idle"
  /\ ui' = [ui EXCEPT !.clicks = @ + 1,
                      !.currentThreadHasMessages = TRUE,
                      !.sent = @ + 1,
                      !.sentThread = ui.currentThreadId]
  /\ UNCHANGED <<threads, messages, call, started, created, reply, chat>>

NextUi ==
  \/ MountEffect
  \/ AutoCreateEffect
  \/ ClickNewChat
  \/ NewThreadResponse
  \/ RefreshThreads
  \/ \E t \in ThreadIds : SelectThread(t)
  \/ SelectResponse
  \/ \E m \in PickerModels : ModelChange(m)
  \/ ui.sent = 0 /\ SendMessage
  \/ started < ui.sent /\ Receive(1, {UiUser}, {ui.sentThread}, {NoId}, ApiLists)
  \/ Step(1)

SpecUi == Init /\ [][NextUi]_vars

(***************************************************************************)
(* SpecSidebar: the UI of a returning user.  The store holds thread t1     *)
(* with the two rows of a turn completed in an earlier session; the user   *)
(* sends messages and selects threads of the sidebar.  The timer of the    *)
(* periodic refresh, the effects, the responses and the server's steps     *)
(* are fair; the user's actions are not.                                   *)
(***************************************************************************)
EarlierThread ==
  [ user_id |-> UiUser, title |-> <<"T">>, model_id |-> "gpt-4o", updated_at |-> 1 ]

EarlierRows ==
  << [ thread_id |-> "t1", role |-> "user",
       content |-> PartsContent(<<TextPart(<<"h", "i">>)>>),
       model_name |-> NoModel, sequence_index |-> 0, by |-> 0 ],
     [ thread_id |-> "t1", role |-> "assistant",
       content |-> PartsContent(<<TextPart(<<"a">>)>>),
       model_name |-> "gpt-4o", sequence_index |-> 1, by |-> 0 ] >>

InitReturning ==
  /\ chat = IdleChat
  /\ ui = IdleUi
  /\ threads = ("t1" :> EarlierThread)
  /\ messages = EarlierRows
  /\ call = [c \in Slots |-> IdleCall]
  /\ started = 0
  /\ created = 1
  /\ reply = IdleReply

ChatOfUi ==
  \/ started < ui.sent /\ Receive(1, {UiUser}, {ui.sentThread}, {NoId}, ApiLists)
  \/ Step(1)

NextSidebar ==
  \/ MountEffect
  \/ AutoCreateEffect
  \/ NewThreadResponse
  \/ RefreshThreads
  \/ \E t \in ThreadIds : SelectThread(t)
  \/ SelectResponse
  \/ ui.sent = 0 /\ SendMessage
  \/ ChatOfUi

SpecSidebar ==
  /\ InitReturning /\ [][NextSidebar]_vars
  /\ WF_vars(MountEffect) /\ WF_vars(AutoCreateEffect)
  /\ WF_vars(NewThreadResponse) /\ WF_vars(RefreshThreads)
  /\ WF_vars(SelectResponse) /\ WF_vars(ChatOfUi)

(***************************************************************************)
(* SpecDelete: the UI of a returning user who deletes threads of the       *)
(* sidebar.  handleDeleteThread awaits the DELETE and then, when the       *)
(* deleted thread was the current one, clears currentThreadId and arms a   *)
(* 100 ms timer that calls handleNewThread.  A second session of the same  *)
(* user deletes threads through the API.                                   *)
(***************************************************************************)
\* handleDeleteThread up to its await: DELETE /api/threads/[id]; the closure
\* holds the currentThreadId of the render in which the button was clicked.
DeleteClick(t) ==
  /\ UiReady
  /\ t \in ui.threads \ {ui.hiddenThreadId}
  /\ ui' = [ui EXCEPT !.clicks = @ + 1,
                      !.deleting = @ \cup {[id |-> t,
                                            wasCurrent |-> ui.currentThreadId = t]}]
  /\ IF OwnThread(UiUser, t)
     THEN /\ threads' = [x \in DOMAIN threads \ {t} |-> threads[x]]
          /\ messages' = RowsOutside({t})
     ELSE UNCHANGED <<threads, messages>>
  /\ UNCHANGED <<call, started, created, reply, chat>>

\* handleDeleteThread after the await.  Deleting the current thread is a
\* trigger for a fresh thread: fresh counts the creation requests that the
\* auto-create effect and the delayed call issue for the latest trigger.
DeleteResponse ==
  /\ EffectsSettled
  /\ \E d \in ui.deleting :
       ui' = IF d.wasCurrent
             THEN [ui EXCEPT !.deleting = @ \ {d},
                             !.threads = @ \ {d.id},
                             !.currentThreadId = NoId,
                             !.hiddenThreadId = NoId,
                             !.currentThreadHasMessages = FALSE,
                             !.timers = @ + 1,
                             !.fresh = 0]
             ELSE [ui EXCEPT !.deleting = @ \ {d},
                             !.threads = @ \ {d.id}]
  /\ UNCHANGED <<threads, messages, call, started, created, reply, chat>>

\* setTimeout(() => handleNewThread(), 100) expires.
DelayedNewThread ==
  /\ EffectsSettled
  /\ ui.timers > 0
  /\ NewThreadRequest([ui EXCEPT !.timers = @ - 1, !.fresh = @ + 1])
  /\ UNCHANGED <<messages, call, started, reply, chat>>

NextDelete ==
  \/ MountEffect
  \/ AutoCreateEffect
  \/ NewThreadResponse
  \/ RefreshThreads
  \/ \E t \in ThreadIds : SelectThread(t)
  \/ SelectResponse
  \/ \E m \in PickerModels : ModelChange(m)
  \/ \E t \in ThreadIds : DeleteClick(t)
  \/ DeleteResponse
  \/ DelayedNewThread
  \/ \E t \in ThreadIds : DeleteThread(UiUser, t)

SpecDelete == InitReturning /\ [][NextDelete]_vars

\* C37: Each trigger for a fresh thread (the end of the initial load with no
\* current thread; the deletion of the current thread) issues one creation
\* request: the auto-create effect and the delayed handleNewThread call
\* together never issue more than one request for the latest trigger.
C37_OneCreationPerTrigger ==
  ui.fresh <= 1

\* The deletion of the current thread for which the effect and the delayed
\* call both issued a request, with no change of the selected model.
C37_DeleteFiresBoth ==
  ui.fresh = 2 /\ created = 4 /\ ui.clicks = 2

(***************************************************************************)
(* SpecHistory: the UI of a returning user with the ChatThread component   *)
(* of the current thread.  <ChatThread key={currentThreadId}> is unmounted *)
(* and mounted anew in the render that changes currentThreadId: the        *)
(* cleanup of the old instance's effect sets its isCancelled, and the new  *)
(* instance starts its own loadHistory.                                    *)
(***************************************************************************)
\* The ChatThread for thread id replaces the mounted one (none when the id
\* is the mounted one's).
Remount(id) ==
  IF id = chat.threadId THEN chat' = chat
  ELSE chat' = [IdleChat EXCEPT
                  !.threadId = id,
                  !.discarded = chat.discarded,
                  !.loads = {[l EXCEPT !.isCancelled = TRUE] : l \in chat.loads}
                              \cup {[threadId |-> id, isCancelled |-> FALSE]}]

SelectThreadShown(t) ==
  /\ ThreadSelected(t)
  /\ Remount(t)
  /\ UNCHANGED <<threads, messages, call, started, created, reply>>

NewThreadShown ==
  /\ \E id \in ThreadIds : NewThreadApplied(id) /\ Remount(id)
  /\ UNCHANGED <<threads, messages, call, started, created, reply>>

\* What a response of loadHistory does: nothing when the effect was cleaned
\* up; otherwise initialMessages becomes the converted rows (or [] when the
\* response is not OK or the fetch threw) and isLoading false.
HistoryAppliedStale(l, list) ==
  [chat EXCEPT !.loads = @ \ {l},
               !.initialMessages = list, !.messages = list,
               !.loaded = TRUE, !.isLoading = FALSE, !.shownOf = l.threadId]

HistoryApplied(l, list) ==
  IF l.isCancelled
  THEN [chat EXCEPT !.loads = @ \ {l}, !.discarded = TRUE]
  ELSE [chat EXCEPT !.loads = @ \ {l},
                    !.initialMessages = list, !.messages = list,
                    !.loaded = TRUE, !.isLoading = FALSE, !.shownOf = l.threadId]

\* A loadHistory fetch completes.
HistoryResponse ==
  /\ \E l \in chat.loads :
       \/ /\ OwnThread(UiUser, l.threadId)
          /\ \E rows \in SortedRows(l.threadId) :
               chat' = HistoryApplied(l, MyMessages(rows))
       \/ chat' = HistoryApplied(l, <<>>)
  /\ UNCHANGED <<threads, messages, call, started, created, reply, ui>>

NextHistory ==
  \/ MountEffect
  \/ AutoCreateEffect
  \/ NewThreadShown
  \/ RefreshThreads
  \/ \E t \in ThreadIds : SelectThreadShown(t)
  \/ SelectResponse
  \/ HistoryResponse
  \/ ui.sent = 0 /\ SendMessage
  \/ ChatOfUi

SpecHistory == InitReturning /\ [][NextHistory]_vars

(***************************************************************************)
(* The bytes of the chat response and the client's reader (onNew).  The    *)
(* wire is a sequence of units: the prefix "data: ", the body of the       *)
(* event and two newlines per event.  The body of a text-delta event is    *)
(* an opening unit (the JSON up to the delta member), the characters of    *)
(* the JSON string literal and the closing brace; the body of any other    *)
(* event is one unit.  The transport may cut the wire between any two      *)
(* units.                                                                  *)
(***************************************************************************)
DataPrefix == "data: "
Newline == "\n"
DeltaOpen == "{\"type\":\"text-delta\",\"delta\":"
BraceClose == "}"
DoneMark == "[DONE]"

\* `data: ${JSON}\n\n` for one event of the custom stream.
WireOfEvent(e) ==
  <<DataPrefix>>
    \o (IF e.type = "text-delta" THEN <<DeltaOpen>> \o e.delta \o <<BraceClose>>
        ELSE IF e.type = "[DONE]" THEN <<DoneMark>>
        ELSE <<e.type>>)
    \o <<Newline, Newline>>

RECURSIVE WireOf(_)
WireOf(events) ==
  IF events = <<>> THEN <<>> ELSE WireOfEvent(Head(events)) \o WireOf(Tail(events))

\* The bytes a call puts on the wire for the increments chunks; the closing
\* events follow only when the provider stream ended without error.
ResponseWire(chunks, ending) ==
  WireOf(StreamHead(1)
           \o [i \in 1 .. Len(chunks) |-> TextDelta(1, chunks[i])]
           \o (IF ending = "closed" THEN StreamTail(1) ELSE <<>>))

RECURSIVE SplitLines(_)
\* chunk.split("\n")
SplitLines(chunk) ==
  LET cut == {i \in 1 .. Len(chunk) : chunk[i] = Newline}
  IN IF cut = {} THEN <<chunk>>
     ELSE LET i == CHOOSE k \in cut : \A l \in cut : k <= l
          IN <<SubSeq(chunk, 1, i - 1)>> \o SplitLines(SubSeq(chunk, i + 1, Len(chunk)))

\* JSON.parse(dataStr) as far as the reader looks at it: the type and the
\* delta of an event, or a syntax error.
ParseEvent(dataStr) ==
  IF Len(dataStr) = 1 /\ dataStr[1] \notin {DeltaOpen, BraceClose, DoneMark, DataPrefix, Quote, Backslash}
  THEN [ok |-> TRUE, type |-> dataStr[1], delta |-> EmptyText]
  ELSE IF /\ Len(dataStr) >= 2 /\ Head(dataStr) = DeltaOpen
          /\ dataStr[Len(dataStr)] = BraceClose
          /\ JsonParseString(SubSeq(dataStr, 2, Len(dataStr) - 1)) # InvalidJson
  THEN [ok |-> TRUE, type |-> "text-delta",
        delta |-> JsonParseString(SubSeq(dataStr, 2, Len(dataStr) - 1))]
  ELSE [ok |-> FALSE, type |-> "", delta |-> EmptyText]

\* Local ids of the messages of the k-th send.
UserMessageId(k) == <<"user", k>>
AssistantMessageId(k) == <<"assistant", k>>

LocalMessage(id, role, text) ==
  [id |-> id, role |-> role, content |-> <<TextPart(text)>>]

\* Reader state while a response is read: the text so far and the list.
\* A text-delta with a non-empty delta extends the text and replaces the
\* assistant message of this send at the end of the list.
ProcessLine(st, line, aid) ==
  IF line = <<>> \/ Head(line) # DataPrefix THEN st
  ELSE LET dataStr == Tail(line)
           ev == ParseEvent(dataStr)
       IN IF dataStr = <<DoneMark>> THEN st
          ELSE IF ev.ok /\ ev.type = "text-delta" /\ ev.delta # EmptyText
          THEN LET text == st.text \o ev.delta
                   others == SelectSeq(st.msgs, LAMBDA m : m.id # aid)
               IN [text |-> text,
                   msgs |-> Append(others, LocalMessage(aid, "assistant", text))]
          ELSE st

RECURSIVE ProcessLines(_, _, _)
ProcessLines(st, lines, aid) ==
  IF lines = <<>> THEN st
  ELSE ProcessLines(ProcessLine(st, Head(lines), aid), Tail(lines), aid)

\* Message lists the runtime may start with (initialMessages).
InitialLists ==
  { <<>>, MyMessages(EarlierRows) }

\* The runtime is mounted with its initial messages.
MountRuntime ==
  /\ chat.pc = "idle" /\ chat.sends = 0 /\ chat.threadId = NoId
  /\ \E ms \in InitialLists :
       chat' = [chat EXCEPT !.threadId = "t1", !.loaded = TRUE, !.isLoading = FALSE,
                            !.initialMessages = ms, !.messages = ms]
  /\ UNCHANGED <<threads, messages, call, started, created, reply, ui>>

\* onNew up to its fetch: the optimistic user message, isRunning.
SendStart ==
  /\ chat.threadId # NoId /\ chat.loaded
  /\ chat.pc = "idle" /\ ~chat.isRunning
  /\ chat.sends < MaxCalls
  /\ chat' = [chat EXCEPT !.sends = @ + 1, !.pc = "fetch", !.isRunning = TRUE,
                          !.before = chat.messages, !.outcome = "none",
                          !.assistantText = EmptyText,
                          !.wire = <<>>, !.ending = "none", !.emitted = <<>>,
                          !.messages = Append(@, LocalMessage(UserMessageId(chat.sends + 1),
                                                              "user", <<"h", "i">>))]
  /\ UNCHANGED <<threads, messages, call, started, created, reply, ui>>

\* catch { remove the optimistic user message } finally { isRunning false }
SendFailed(c0) ==
  [c0 EXCEPT !.messages = SelectSeq(@, LAMBDA m : m.id # UserMessageId(c0.sends)),
             !.isRunning = FALSE, !.pc = "idle", !.outcome = "failed",
             !.wire = <<>>]

\* The response is not OK: onNew throws before reading.
ResponseNotOk ==
  /\ chat.pc = "fetch"
  /\ chat' = SendFailed(chat)
  /\ UNCHANGED <<threads, messages, call, started, created, reply, ui>>

\* The response is OK: the server streams the events of some increments and
\* then closes the stream or errors it.
ResponseOk ==
  /\ chat.pc = "fetch"
  /\ \E n \in 0 .. MaxChunks, ending \in {"closed", "errored"} :
       LET chunks == SubSeq(ProviderScript, 1, n)
       IN chat' = [chat EXCEPT !.pc = "read", !.ending = ending, !.emitted = chunks,
                               !.wire = ResponseWire(chunks, ending)]
  /\ UNCHANGED <<threads, messages, call, started, created, reply, ui>>

\* One reader.read() that delivers the next n units of the wire.
ReadChunk ==
  /\ chat.pc = "read" /\ chat.wire # <<>>
  /\ \E n \in 1 .. Len(chat.wire) :
       LET st == ProcessLines([text |-> chat.assistantText, msgs |-> chat.messages],
                              SplitLines(SubSeq(chat.wire, 1, n)),
                              AssistantMessageId(chat.sends))
       IN chat' = [chat EXCEPT !.wire = SubSeq(@, n + 1, Len(@)),
                               !.assistantText = st.text,
                               !.messages = st.msgs]
  /\ UNCHANGED <<threads, messages, call, started, created, reply, ui>>

\* reader.read() reports done: the loop ends, isRunning becomes false.
ReadDone ==
  /\ chat.pc = "read" /\ chat.wire = <<>> /\ chat.ending = "closed"
  /\ chat' = [chat EXCEPT !.pc = "idle", !.isRunning = FALSE, !.outcome = "complete"]
  /\ UNCHANGED <<threads, messages, call, started, created, reply, ui>>

\* reader.read() rejects: the server errored the stream (what was queued
\* and not read is dropped).
ReadError ==
  /\ chat.pc = "read" /\ chat.ending = "errored"
  /\ chat' = SendFailed(chat)
  /\ UNCHANGED <<threads, messages, call, started, created, reply, ui>>

NextReader ==
  \/ MountRuntime
  \/ SendStart
  \/ ResponseNotOk
  \/ ResponseOk
  \/ ReadChunk
  \/ ReadDone
  \/ ReadError

SpecReader == Init /\ [][NextReader]_vars

(***************************************************************************)
(* SpecCleanup: cleanup with no concurrent writer.  Threads are created    *)
(* and the steps of one chat call run only while no cleanup is in progress.*)
(***************************************************************************)
NextCleanup ==
  \/ reply.pc = "done" /\ \E u \in Users : CreateThread(u, "")
  \/ reply.pc = "done" /\ started = 0 /\ Receive(1, Users, ApiIds, {NoId}, ApiLists)
  \/ reply.pc = "done" /\ Step(1)
  \/ \E u \in Callers : CleanupStart(u)
  \/ CleanupCount
  \/ CleanupDelete

SpecCleanup == Init /\ [][NextCleanup]_vars

(***************************************************************************)
(* Vocabulary of the properties.                                           *)
(***************************************************************************)
\* Rows written by call number id with the given role.
RowsBy(id, role) ==
  {i \in 1 .. Len(messages) : messages[i].by = id /\ messages[i].role = role}

\* Number of rows of row i's thread written before row i.
RowsBefore(i) ==
  Cardinality({j \in 1 .. i - 1 : messages[j].thread_id = messages[i].thread_id})

\* The provider has been invoked by the call in slot c.
ProviderInvoked(c) ==
  call[c].pc \in {"stream", "tail", "closed", "errored"}

IsTextDelta(e) == e.type = "text-delta"

Deltas(events) == SelectSeq(events, IsTextDelta)

\* The text a consumer assembles from the text-delta events it received.
DeltaText(events) ==
  Flatten([i \in 1 .. Len(Deltas(events)) |-> JsonParseString(Deltas(events)[i].delta)])

\* The events of a call as determined by the provider's increments alone:
\* the opening events, one text-delta per increment and, once the stream is
\* closed, the closing events.
EventsOf(r) ==
  StreamHead(r.messageId)
    \o [i \in 1 .. Len(r.chunks) |-> TextDelta(r.messageId, r.chunks[i])]
    \o (IF r.pc = "closed" THEN StreamTail(r.messageId) ELSE <<>>)

C2_DeltasEqualPersistedText ==
  \A c \in Slots :
    call[c].pc = "closed" =>
      LET r == call[c]
          rows == RowsBy(r.id, "assistant")
      IN /\ Cardinality(rows) <= 1
         /\ (r.fin = "done" /\ r.finInserted) => rows # {}
         /\ \A i \in rows :
              messages[i].content =
                [kind |-> "array",
                 parts |-> <<[type |-> "text", text |-> DeltaText(r.events)]>>,
                 str |-> <<>>]

\* A completed stream of two increments (one holding a quote and a
\* backslash) whose assistant turn was persisted.
C2_Witness ==
  \E c \in Slots :
    /\ call[c].pc = "closed" /\ call[c].fin = "done" /\ call[c].finInserted
    /\ Len(call[c].chunks) = 2
    /\ RowsBy(call[c].id, "assistant") # {}

(***************************************************************************)
(* C3.  With calls handled one at a time, the sequence numbers of every    *)
(* conversation's turns are pairwise distinct, strictly increasing in      *)
(* write order, and each equals the number of turns the conversation held  *)
(* when the turn was written.                                              *)
(***************************************************************************)
C3_SerializedSequenceNumbers ==
  \A j \in 1 .. Len(messages) :
    /\ messages[j].sequence_index = RowsBefore(j)
    /\ \A i \in 1 .. j - 1 :
         messages[i].thread_id = messages[j].thread_id =>
           messages[i].sequence_index < messages[j].sequence_index

(***************************************************************************)
(* C4.  Concurrent calls on one conversation are not coordinated: a turn   *)
(* carries the count its call read, whatever was inserted since, so a turn *)
(* whose count is stale at the insert repeats an earlier turn's sequence   *)
(* number; and two turns never share a sequence number unless the later    *)
(* one's count was stale (or unread).  The witness is the reachable state  *)
(* with the duplicate.                                                     *)
(***************************************************************************)
C4_DuplicatesFromStaleCount ==
  \A c \in Slots :
    LET r == call[c]
        Stale(j, ok, seen) ==
          ok => /\ messages[j].sequence_index = seen
                /\ \A i \in 1 .. j - 1 :
                     ( /\ messages[i].thread_id = messages[j].thread_id
                       /\ messages[i].sequence_index = messages[j].sequence_index )
                     => RowsBefore(j) > seen
    IN /\ \A j \in RowsBy(r.id, "user") : Stale(j, ~r.count.error, r.seen)
       /\ \A j \in RowsBy(r.id, "assistant") : Stale(j, ~r.finCount.error, r.finSeen)

\* Two calls, both with a successful count read, have each written a user
\* turn of the same conversation with the same sequence number.
C4_Witness ==
  \E c, d \in Slots :
    /\ c # d
    /\ ~call[c].count.error /\ ~call[d].count.error
    /\ \E i \in RowsBy(call[c].id, "user"), j \in RowsBy(call[d].id, "user") :
         /\ messages[i].thread_id = messages[j].thread_id
         /\ messages[i].sequence_index = messages[j].sequence_index

(***************************************************************************)
(* C5.  When the provider stream of a call has ended without error and the *)
(* stream is closed, the events sent are, in order: start, start-step,     *)
(* text-start, the text-delta events, text-end, finish-step, finish with   *)
(* finishReason stop, [DONE]; there is one text-start and one text-end;    *)
(* and a closed stream emits nothing more.                                 *)
(***************************************************************************)
C5_Lifecycle(r) ==
  LET ev == r.events
      n == Len(ev)
  IN /\ n >= 7
     /\ ev[1].type = "start" /\ ev[2].type = "start-step" /\ ev[3].type = "text-start"
     /\ \A i \in 4 .. n - 4 : ev[i].type = "text-delta"
     /\ ev[n - 3].type = "text-end" /\ ev[n - 2].type = "finish-step"
     /\ ev[n - 1].type = "finish" /\ ev[n - 1].finishReason = "stop"
     /\ ev[n].type = "[DONE]"
     /\ n = 7 + Len(r.chunks)

C5_ClosedStreamLifecycle ==
  /\ [](\A c \in Slots : call[c].pc = "closed" => C5_Lifecycle(call[c]))
  /\ [][\A c \in Slots :
          /\ (call[c].pc = "tail" /\ call'[c].pc # "tail") => call'[c].pc = "closed"
          /\ call[c].pc = "closed" =>
                \/ call'[c].pc = "closed" /\ call'[c].events = call[c].events
                \/ call'[c] = IdleCall]_vars

\* A closed stream that carried two text-delta events.
C5_Witness ==
  \E c \in Slots : call[c].pc = "closed" /\ Len(call[c].chunks) = 2

(***************************************************************************)
(* C6.  At every moment of a call's stream, the text-delta events sent so  *)
(* far are one per increment received from the provider, in the order      *)
(* received; each carries its increment verbatim and the id of the call's  *)
(* text-start event, which is also the id of the text-end event.           *)
(***************************************************************************)
C6_OneDeltaPerIncrement ==
  \A c \in Slots :
    ProviderInvoked(c) =>
      LET r == call[c]
          ds == Deltas(r.events)
      IN /\ Len(ds) = Len(r.chunks)
         /\ \A i \in 1 .. Len(ds) :
              /\ JsonParseString(ds[i].delta) = r.chunks[i]
              /\ ds[i].id = r.events[3].id
         /\ \A i \in 1 .. Len(r.events) :
              r.events[i].type = "text-end" => r.events[i].id = r.events[3].id
         /\ \A i \in 4 .. 3 + Len(ds) : r.events[i].type = "text-delta"

\* A stream that has sent two text-delta events for two distinct increments.
C6_Witness ==
  \E c \in Slots :
    /\ call[c].pc = "stream"
    /\ Len(call[c].chunks) = 2 /\ call[c].chunks[1] # call[c].chunks[2]
    /\ Len(Deltas(call[c].events)) = 2

(***************************************************************************)
(* C7.  A call invokes the title synthesizer if and only if the assistant  *)
(* turn it has just written is the conversation's second turn, the first   *)
(* being a user turn; never for a later turn and never when it wrote no    *)
(* assistant turn.                                                         *)
(***************************************************************************)
C7_WroteSecondTurn(r) ==
  \E j \in RowsBy(r.id, "assistant") :
    /\ RowsBefore(j) = 1
    /\ \E i \in 1 .. j - 1 :
         messages[i].thread_id = messages[j].thread_id /\ messages[i].role = "user"

C7_TitleIffSecondTurn ==
  \A c \in Slots :
    /\ call[c].titled => C7_WroteSecondTurn(call[c])
    /\ (call[c].fin = "done" /\ C7_WroteSecondTurn(call[c])) => call[c].titled

(***************************************************************************)
(* C8.  A call is answered before streaming exactly when, in this order,   *)
(* no user resolves (401 Unauthorized), no thread id is supplied (400),    *)
(* the id resolves to no thread of the caller (404) or the thread's model  *)
(* is not in the registry (400); an answered call has sent no event, has   *)
(* written no turn, has changed no thread, and never invokes the provider. *)
(***************************************************************************)
C8_Registered(m) ==
  \E i \in 1 .. Len(AVAILABLE_MODELS) : AVAILABLE_MODELS[i].id = m

C8_Resolves(r) ==
  r.threadId \in DOMAIN threads /\ threads[r.threadId].user_id = r.user

C8_Outcome(r) ==
  IF r.user = NoUser THEN <<401, "Unauthorized">>
  ELSE IF r.threadId = NoId
       THEN <<400, "threadId is required. Create a thread first.">>
  ELSE IF ~C8_Resolves(r) THEN <<404, "Thread not found">>
  ELSE IF ~C8_Registered(threads[r.threadId].model_id) THEN <<400, "Invalid model">>
  ELSE <<200, "">>

C8_PreStreamErrors ==
  /\ [](\A c \in Slots :
          call[c].pc = "responded" =>
            /\ call[c].events = <<>> /\ call[c].fin = "none"
            /\ RowsBy(call[c].id, "user") = {} /\ RowsBy(call[c].id, "assistant") = {}
            /\ ~call[c].titled /\ ~call[c].touched)
  /\ [][\A c \in Slots :
          /\ call[c].pc = "responded" => call'[c].pc \in {"responded", "idle"}
          /\ (call[c].pc \in {"idle", "fetch"} /\ call'[c].pc # call[c].pc) =>
                LET r == call'[c]
                    out == C8_Outcome(r)
                    early == r.user = NoUser \/ r.threadId = NoId
                IN /\ threads' = threads /\ messages' = messages
                   /\ r.pc = "responded" => r.status = out[1] /\ r.error = out[2]
                   /\ call[c].pc = "idle" =>
                        /\ r.pc = "responded" <=> early
                        /\ r.pc # "responded" => r.pc = "fetch"
                   /\ call[c].pc = "fetch" =>
                        /\ ~early
                        /\ r.pc = "responded" <=> out[1] # 200
                        /\ r.pc # "responded" => r.pc \in {"count", "invoke"}]_vars

\* A call on the caller's own thread was refused because the thread's model
\* is not registered.
C8_Witness ==
  \E c \in Slots :
    /\ call[c].pc = "responded" /\ call[c].error = "Invalid model"
    /\ call[c].threadId \in DOMAIN threads
    /\ threads[call[c].threadId].user_id = call[c].user

(***************************************************************************)
(* C9.  When the provider has raised an error after k increments, the      *)
(* caller has received start, start-step, text-start and exactly those k   *)
(* text-delta events; the stream is errored and no text-end, finish-step,  *)
(* finish or [DONE] event is emitted, then or later.                       *)
(***************************************************************************)
C9_ErroredStreamIsTruncated ==
  /\ [](\A c \in Slots :
          call[c].pc = "errored" =>
            LET ev == call[c].events
            IN /\ Len(ev) = 3 + Len(call[c].chunks)
               /\ ev[1].type = "start" /\ ev[2].type = "start-step"
               /\ ev[3].type = "text-start"
               /\ \A i \in 4 .. Len(ev) :
                    /\ ev[i].type = "text-delta"
                    /\ JsonParseString(ev[i].delta) = call[c].chunks[i - 3]
               /\ \A i \in 1 .. Len(ev) :
                    ev[i].type \notin {"text-end", "finish-step", "finish", "[DONE]"})
  /\ [][\A c \in Slots :
          call[c].pc = "errored" =>
            \/ call'[c].pc = "errored" /\ call'[c].events = call[c].events
            \/ call'[c] = IdleCall]_vars

\* The provider failed after two text-delta events had been sent.
C9_Witness ==
  \E c \in Slots : call[c].pc = "errored" /\ Len(call[c].chunks) = 2

(***************************************************************************)
(* C10.  A call whose provider raised an error never runs its completion   *)
(* callback: it has written no assistant turn, has not invoked the title   *)
(* synthesizer and has not updated its thread; assistant turns and thread  *)
(* updates come only from calls whose provider stream ended normally; and  *)
(* the user turn the call wrote stays persisted.                           *)
(***************************************************************************)
C10_NoCompletionAfterProviderError ==
  /\ [](\A c \in Slots :
          call[c].pc = "errored" =>
            /\ call[c].fin = "none"
            /\ RowsBy(call[c].id, "assistant") = {}
            /\ ~call[c].titled /\ ~call[c].touched
            /\ call[c].inserted => Cardinality(RowsBy(call[c].id, "user")) = 1)
  /\ [][/\ \A t \in DOMAIN threads :
             (t \in DOMAIN threads' /\ threads'[t] # threads[t]) =>
               \E c \in Slots : call[c].threadId = t /\ call[c].pc \in {"tail", "closed"}
        /\ \A i \in 1 .. Len(messages) :
             i <= Len(messages') /\ messages'[i] = messages[i]
        /\ \A i \in Len(messages) + 1 .. Len(messages') :
             messages'[i].role = "assistant" =>
               \E c \in Slots : /\ call[c].id = messages'[i].by
                                 /\ call[c].pc \in {"tail", "closed"}]_vars

\* The provider failed after two increments for a call that had saved its
\* user turn to a thread.
C10_Witness ==
  \E c \in Slots :
    /\ call[c].pc = "errored" /\ call[c].inserted
    /\ Len(call[c].chunks) = 2
    /\ RowsBy(call[c].id, "user") # {}

(***************************************************************************)
(* C11.  When the caller has cancelled the response stream of a call       *)
(* after at least one text-delta event and the call has come to its end,   *)
(* the call has persisted exactly one assistant turn, whose text is a      *)
(* prefix of the provider's output, namely the text accumulated when the   *)
(* provider stream was torn down; its user turn is still there, written    *)
(* once.                                                                   *)
(***************************************************************************)
C11_IsPrefix(a, b) ==
  Len(a) <= Len(b) /\ SubSeq(b, 1, Len(a)) = a

C11_DisconnectPersistsPartialTurn ==
  \A c \in Slots :
    LET r == call[c]
        rows == RowsBy(r.id, "assistant")
    IN (r.pc = "abandoned" /\ Len(Deltas(r.events)) >= 1 /\ Finished(c)) =>
         /\ Cardinality(rows) = 1
         /\ \A i \in rows :
              /\ messages[i].content = PartsContent(<<TextPart(AccumulatedText(r))>>)
              /\ C11_IsPrefix(AccumulatedText(r), Flatten(ProviderScript))
         /\ r.inserted => Cardinality(RowsBy(r.id, "user")) = 1

(***************************************************************************)
(* C12.  Every call whose provider stream completed normally updates the   *)
(* last-activity timestamp of its thread before its completion callback    *)
(* returns, on every path of the callback.                                 *)
(***************************************************************************)
C12_CompletionUpdatesTimestamp ==
  \A c \in Slots :
    call[c].fin = "done" => call[c].touched

(***************************************************************************)
(* C13.  When title synthesis fails in the completion callback (the        *)
(* first-user lookup or the generation call raises), the error is          *)
(* swallowed: entering the catch block changes nothing in the store; the   *)
(* catch block leaves the title, the model and all turns as they are,      *)
(* advances the thread's timestamp and ends the callback; the assistant    *)
(* turn written before stays persisted; and the events sent to the caller  *)
(* are determined by the provider's increments alone, so they are the same *)
(* as when title synthesis succeeds.                                       *)
(***************************************************************************)
C13_TitleFailureSwallowed ==
  /\ [](\A c \in Slots :
          /\ call[c].fin \in {"lookup", "generate", "catch", "update", "done"} =>
                /\ call[c].events = EventsOf(call[c])
                /\ call[c].status = 200 /\ call[c].error = ""
          /\ call[c].fin = "catch" =>
                /\ call[c].threadId \in DOMAIN threads
                /\ call[c].finInserted =>
                      Cardinality(RowsBy(call[c].id, "assistant")) = 1)
  /\ [][\A c \in Slots :
          LET r == call[c]
              q == call'[c]
              t == r.threadId
          IN /\ (r.fin \in {"lookup", "generate"} /\ q.fin = "catch") =>
                  /\ threads' = threads /\ messages' = messages
                  /\ q.events = r.events /\ q.pc = r.pc
             /\ (r.fin = "catch" /\ q.fin # "catch") =>
                  /\ q.fin = "done" /\ q.touched
                  /\ q.events = r.events /\ q.pc = r.pc /\ q.status = r.status
                  /\ messages' = messages
                  /\ DOMAIN threads' = DOMAIN threads
                  /\ threads'[t].title = threads[t].title
                  /\ threads'[t].model_id = threads[t].model_id
                  /\ threads'[t].updated_at > threads[t].updated_at
                  /\ \A u \in DOMAIN threads \ {t} : threads'[u] = threads[u]]_vars

\* A call whose title generation was invoked and raised has returned from
\* its callback: the stream is closed, the assistant turn is persisted, the
\* thread still has its initial title and its timestamp has advanced.
C13_Witness ==
  \E c \in Slots :
    LET r == call[c]
    IN /\ r.fin = "done" /\ r.pc = "closed"
       /\ r.titled /\ r.generatedTitle = EmptyText /\ r.touched
       /\ r.finInserted /\ RowsBy(r.id, "assistant") # {}
       /\ threads[r.threadId].title = <<"New Chat">>
       /\ threads[r.threadId].updated_at >= 1

(***************************************************************************)
(* C14.  A failed insert of the user turn or of the assistant turn never   *)
(* aborts the call and is never shown to the caller: after the user-turn   *)
(* insert, failed or not, the provider is invoked and the stream is        *)
(* returned with status 200; the assistant-turn insert, failed or not,     *)
(* changes neither the response nor the events; and the events sent are    *)
(* determined by the provider's increments alone, so they are the same     *)
(* whether the inserts succeeded or failed.                                *)
(***************************************************************************)
C14_InsertFailuresNotSurfaced ==
  /\ [](\A c \in Slots :
          call[c].pc \in {"stream", "tail", "closed"} =>
            /\ call[c].status = 200 /\ call[c].error = ""
            /\ call[c].events = EventsOf(call[c]))
  /\ [][\A c \in Slots :
          LET r == call[c]
              q == call'[c]
          IN /\ (r.pc = "insert" /\ q.pc # "insert") => q.pc = "invoke"
             /\ (r.pc = "invoke" /\ q.pc # "invoke") =>
                  q.pc = "stream" /\ q.status = 200
             /\ (r.fin = "insert" /\ q.fin # "insert") =>
                  /\ q.fin \in {"lookup", "touch"}
                  /\ q.pc = r.pc /\ q.events = r.events
                  /\ q.status = r.status /\ q.error = r.error]_vars

\* A call with a user message both of whose inserts failed has streamed two
\* increments to the end and returned from its callback; it wrote no turn.
C14_Witness ==
  \E c \in Slots :
    LET r == call[c]
    IN /\ r.pc = "closed" /\ r.fin = "done" /\ r.status = 200
       /\ LastIsUser(r.msgs) /\ ~r.inserted /\ ~r.finInserted
       /\ Len(r.chunks) = 2
       /\ RowsBy(r.id, "user") = {} /\ RowsBy(r.id, "assistant") = {}

(***************************************************************************)
(* C15.  No step of a chat call changes the model identifier of any        *)
(* thread: across every step taken by a call, on every path, each thread   *)
(* still exists and has the model identifier it had before; and the model  *)
(* a call streams with is the model of its thread.                         *)
(***************************************************************************)
C15_ChatKeepsModel ==
  /\ [](\A c \in Slots :
          call[c].modelId # NoModel =>
            /\ call[c].threadId \in DOMAIN threads
            /\ threads[call[c].threadId].model_id = call[c].modelId)
  /\ [][call' # call =>
          \A t \in DOMAIN threads :
            /\ t \in DOMAIN threads'
            /\ threads'[t].model_id = threads[t].model_id]_vars

\* A call has written a generated title and the timestamp to its thread,
\* which still has the model the call streamed with.
C15_Witness ==
  \E c \in Slots :
    LET r == call[c]
    IN /\ r.fin = "done" /\ r.titled /\ r.touched
       /\ r.generatedTitle # EmptyText
       /\ threads[r.threadId].title = r.generatedTitle
       /\ threads[r.threadId].updated_at >= 1
       /\ threads[r.threadId].model_id = r.modelId

(***************************************************************************)
(* C16.  Model locking: once a thread has at least one turn, no operation  *)
(* of the backend (create, update, delete, cleanup, chat) changes its      *)
(* model identifier; a model update requested for such a thread leaves the *)
(* model identifier as it was.                                             *)
(***************************************************************************)
C16_ModelLockedAfterFirstTurn ==
  [][\A t \in DOMAIN threads :
       (CountMessages(t) > 0 /\ t \in DOMAIN threads') =>
         threads'[t].model_id = threads[t].model_id]_vars

(***************************************************************************)
(* C17.  Every thread holds a model identifier that is present in the      *)
(* model registry: creation with an identifier that resolves to no entry   *)
(* does not produce a thread holding it.                                   *)
(***************************************************************************)
C17_ThreadsHoldRegisteredModels ==
  \A t \in DOMAIN threads : getModelById(threads[t].model_id) # NoConfig

(***************************************************************************)
(* C18.  For the chat route and the message-listing route, a thread id     *)
(* that names no thread and a thread id that names a thread of another     *)
(* user get the same response, 404 "Thread not found" with no data; the    *)
(* request writes nothing, sends no event and never reaches the provider.  *)
(***************************************************************************)
C18_Owns(u, t) ==
  t \in DOMAIN threads /\ threads[t].user_id = u

C18_NoEnumerationOracle ==
  /\ [](\A c \in Slots :
          (call[c].pc = "responded" /\ call[c].status = 404) =>
            /\ call[c].error = "Thread not found"
            /\ call[c].events = <<>> /\ call[c].fin = "none"
            /\ RowsBy(call[c].id, "user") = {}
            /\ RowsBy(call[c].id, "assistant") = {})
  /\ [][\A c \in Slots :
          /\ ( /\ call[c].pc = "fetch" /\ call'[c].pc # "fetch"
               /\ ~C18_Owns(call[c].user, call[c].threadId) ) =>
                /\ call'[c].pc = "responded"
                /\ call'[c].status = 404 /\ call'[c].error = "Thread not found"
                /\ threads' = threads /\ messages' = messages
          /\ (call[c].pc = "responded" /\ call'[c] # call[c]) => call'[c] = IdleCall]_vars
  /\ [][( /\ reply'.n # reply.n /\ reply'.op = "messages"
          /\ reply'.user # NoUser
          /\ ~C18_Owns(reply'.user, reply'.id) ) =>
            /\ reply'.status = 404 /\ reply'.error = "Thread not found"
            /\ reply'.rows = <<>> /\ reply'.threads = {}
            /\ threads' = threads /\ messages' = messages /\ call' = call]_vars

\* Both routes have answered 404 for the id of an existing thread of
\* another user.
C18_Witness ==
  /\ reply.op = "messages" /\ reply.status = 404
  /\ reply.user # NoUser /\ reply.existed
  /\ \E c \in Slots :
       /\ call[c].pc = "responded" /\ call[c].status = 404 /\ call[c].existed

(***************************************************************************)
(* C19.  Every route resolves the caller first.  A request for which no    *)
(* user resolves is answered 401 "Unauthorized": the handler has issued no *)
(* store statement, returns no thread and no turn, leaves threads and      *)
(* turns as they are, and (chat) sends no event and never reaches the      *)
(* provider.                                                               *)
(***************************************************************************)
C19_IdentityCheckedFirst ==
  /\ [](\A c \in Slots :
          (call[c].pc # "idle" /\ call[c].user = NoUser) =>
            /\ call[c].pc = "responded"
            /\ call[c].status = 401 /\ call[c].error = "Unauthorized"
            /\ call[c].events = <<>> /\ call[c].fin = "none"
            /\ RowsBy(call[c].id, "user") = {}
            /\ RowsBy(call[c].id, "assistant") = {})
  /\ [](( reply.op # "none" /\ reply.user = NoUser ) =>
            /\ reply.pc = "done"
            /\ reply.status = 401 /\ reply.error = "Unauthorized"
            /\ reply.queries = 0
            /\ reply.threads = {} /\ reply.rows = <<>> /\ reply.deleted = 0)
  /\ [][( reply'.n # reply.n /\ reply'.user = NoUser ) =>
            /\ threads' = threads /\ messages' = messages
            /\ created' = created /\ call' = call]_vars
  /\ [][\A c \in Slots :
          ( call'[c] # call[c] /\ call'[c].user = NoUser /\ call'[c].pc # "idle" ) =>
            /\ threads' = threads /\ messages' = messages
            /\ created' = created]_vars

\* A cleanup request without a user was refused while a thread without
\* turns existed, and a chat request without a user naming an existing
\* thread was refused.
C19_Witness ==
  /\ reply.op = "cleanup" /\ reply.user = NoUser /\ reply.status = 401
  /\ \E t \in DOMAIN threads : CountMessages(t) = 0
  /\ \E c \in Slots :
       /\ call[c].pc = "responded" /\ call[c].status = 401
       /\ DOMAIN threads # {}

(***************************************************************************)
(* C20.  User isolation.  Whatever a user A does (chat, create, get,       *)
(* update, delete, list, list turns, cleanup), every thread of another     *)
(* user stays as it is, the turns of other users' threads stay as they     *)
(* are, a thread that comes into being belongs to A, and the threads and   *)
(* turns returned to A are A's.  A turn written by a chat call lies in a   *)
(* thread of the caller.                                                   *)
(***************************************************************************)
C20_ForeignRows(msgs, a) ==
  SelectSeq(msgs, LAMBDA row : /\ row.thread_id \in DOMAIN threads
                               /\ threads[row.thread_id].user_id # a)

C20_Untouched(a) ==
  /\ \A t \in DOMAIN threads :
       threads[t].user_id # a => t \in DOMAIN threads' /\ threads'[t] = threads[t]
  /\ \A t \in DOMAIN threads' \ DOMAIN threads : threads'[t].user_id = a
  /\ C20_ForeignRows(messages', a) = C20_ForeignRows(messages, a)

C20_UserIsolation ==
  /\ [](\A c \in Slots : \A i \in 1 .. Len(messages) :
          (call[c].id # 0 /\ messages[i].by = call[c].id) =>
            /\ messages[i].thread_id \in DOMAIN threads
            /\ threads[messages[i].thread_id].user_id = call[c].user)
  /\ [][\A c \in Slots :
          call'[c] # call[c] =>
            C20_Untouched(IF call[c].pc = "idle" THEN call'[c].user ELSE call[c].user)]_vars
  /\ [][reply' # reply =>
          /\ C20_Untouched(reply'.user)
          /\ \A t \in reply'.threads :
               t \in DOMAIN threads' /\ threads'[t].user_id = reply'.user
          /\ \A k \in 1 .. Len(reply'.rows) :
               /\ reply'.rows[k].thread_id \in DOMAIN threads
               /\ threads[reply'.rows[k].thread_id].user_id = reply'.user]_vars

\* A user's chat call naming a thread of the other user that holds a turn
\* was refused, and the same user's delete of that thread was answered:
\* the thread and its turn are still there.
C20_Witness ==
  \E c \in Slots :
    LET r == call[c]
    IN /\ r.pc = "responded" /\ r.status = 404 /\ r.existed
       /\ r.threadId \in DOMAIN threads
       /\ threads[r.threadId].user_id # r.user
       /\ CountMessages(r.threadId) > 0
       /\ reply.op = "delete" /\ reply.status = 200 /\ reply.existed
       /\ reply.user = r.user /\ reply.id = r.threadId

(***************************************************************************)
(* C21.  The chat route never creates a thread: no step of a chat call     *)
(* changes the set of existing threads, and a call of a resolved user     *)
(* that names no thread id is answered 400 "threadId is required. Create   *)
(* a thread first." without a thread coming into being.                    *)
(***************************************************************************)
C21_ChatNeverCreatesThread ==
  /\ [](\A c \in Slots :
          ( call[c].pc # "idle" /\ call[c].user # NoUser /\ call[c].threadId = NoId ) =>
            /\ call[c].pc = "responded" /\ call[c].status = 400
            /\ call[c].error = "threadId is required. Create a thread first.")
  /\ [][call' # call =>
          /\ DOMAIN threads' = DOMAIN threads
          /\ created' = created]_vars

\* A call of a resolved user without a thread id was refused while no
\* thread existed, and none exists afterwards.
C21_Witness ==
  \E c \in Slots :
    /\ call[c].pc = "responded" /\ call[c].status = 400
    /\ call[c].user # NoUser /\ call[c].threadId = NoId
    /\ DOMAIN threads = {} /\ created = 0

(***************************************************************************)
(* C22.  The thread id of the query string takes precedence over the one   *)
(* in the body, which is used only when the query string has none; every   *)
(* step of the call reads and writes the thread of that id only: the model *)
(* it resolved is that thread's, a 404 means that thread was not the       *)
(* caller's, and no step changes another thread or adds a row to another   *)
(* thread.                                                                 *)
(***************************************************************************)
C22_Chosen(r) ==
  IF r.threadIdFromQuery # NoId THEN r.threadIdFromQuery ELSE r.threadIdFromBody

C22_QueryIdTakesPrecedence ==
  /\ [](\A c \in Slots :
          LET r == call[c] IN
          ( r.pc # "idle" /\ r.user # NoUser ) =>
            /\ r.threadId = C22_Chosen(r)
            /\ r.existed => r.threadId \in DOMAIN threads
            /\ r.modelId # NoModel => r.modelId = threads[r.threadId].model_id
            /\ ( r.status = 404 /\ r.existed ) => threads[r.threadId].user_id # r.user
            /\ ( r.status = 400 /\ r.existed ) =>
                  getModelById(threads[r.threadId].model_id) = NoConfig)
  /\ [][\A c \in Slots :
          call'[c] # call[c] =>
            LET tid == call'[c].threadId IN
            /\ \A t \in DOMAIN threads \ {tid} :
                  t \in DOMAIN threads' /\ threads'[t] = threads[t]
            /\ \/ messages' = messages
               \/ /\ Len(messages') = Len(messages) + 1
                  /\ SubSeq(messages', 1, Len(messages)) = messages
                  /\ messages'[Len(messages')].thread_id = tid]_vars

\* A call named one own thread in the query string and another own thread,
\* whose model is not registered, in the body; it ran to the end of its
\* completion callback on the thread of the query string, and the thread of
\* the body has no rows.
C22_Witness ==
  \E c \in Slots :
    LET r == call[c] IN
    /\ r.threadIdFromQuery # NoId /\ r.threadIdFromBody # NoId
    /\ r.threadIdFromQuery # r.threadIdFromBody
    /\ r.threadIdFromBody \in DOMAIN threads
    /\ threads[r.threadIdFromBody].user_id = r.user
    /\ threads[r.threadIdFromBody].model_id = "unknown-model"
    /\ r.fin = "done" /\ r.inserted /\ r.finInserted /\ r.touched
    /\ CountMessages(r.threadIdFromQuery) = 2
    /\ CountMessages(r.threadIdFromBody) = 0

(***************************************************************************)
(* C23.  Round trip: the rows of a thread, listed by sequence_index,       *)
(* converted by the client's history loader and sent back as the inbound   *)
(* messages of a chat call, give the provider, row for row, the role and   *)
(* text it received (user rows) or produced (assistant rows) in the call   *)
(* that wrote the row.                                                     *)
(***************************************************************************)
C23_Original(r, row) ==
  IF row.role = "user"
  THEN ProviderMessage(r.msgs[Len(r.msgs)])
  ELSE [role |-> "assistant", content |-> AccumulatedText(r)]

C23_RoundTripOf(ok(_)) ==
  \A c \in Slots :
    LET r == call[c] IN
    ( r.id # 0 /\ ok(r) ) =>
      \A rows \in SortedRows(r.threadId) :
        LET replay == ProviderMessages(ClientPayload(LoadHistory(rows)))
        IN \A k \in 1 .. Len(rows) :
             rows[k].by = r.id => replay[k] = C23_Original(r, rows[k])

C23_Any(r) == TRUE

C23_RoundTrip == C23_RoundTripOf(C23_Any)

\* The same round trip for calls whose last message carries a parts array.
C23_Structured(r) == r.msgs # <<>> /\ r.msgs[Len(r.msgs)].hasParts

C23_RoundTripStructured == C23_RoundTripOf(C23_Structured)

\* A call whose last message was in the legacy form wrote both its rows.
C23_LegacyTurnWritten ==
  \E c \in Slots :
    LET r == call[c] IN
    /\ r.msgs = <<UserLegacy>> /\ r.inserted /\ r.finInserted /\ r.fin = "done"

(***************************************************************************)
(* C24.  Referential integrity under deletion: every persisted row belongs *)
(* to a thread that exists, and a step that removes a thread removes all   *)
(* of its rows, whatever the interleaving of chat steps, deletes and       *)
(* cleanup.                                                                *)
(***************************************************************************)
C24_ReferentialIntegrity ==
  /\ [](\A i \in 1 .. Len(messages) : messages[i].thread_id \in DOMAIN threads)
  /\ [][\A t \in DOMAIN threads \ DOMAIN threads' :
          \A i \in 1 .. Len(messages') : messages'[i].thread_id # t]_vars

\* A chat call wrote its user row, its thread was then deleted by its owner
\* while the answer was streaming, and the completion callback ran to its
\* end afterwards: no row of the thread is left.
C24_Witness ==
  \E c \in Slots :
    LET r == call[c] IN
    /\ r.inserted /\ r.fin = "done" /\ ~r.finInserted
    /\ r.threadId \notin DOMAIN threads
    /\ reply.op = "delete" /\ reply.id = r.threadId /\ reply.user = r.user
    /\ reply.existed /\ reply.status = 200

(***************************************************************************)
(* C25.  Turns are immutable: a step of the backend leaves the rows as     *)
(* they are, or appends one row after them, or removes exactly the rows of *)
(* the threads it deletes; so no row changes its role, content, model      *)
(* name, sequence number or thread, and a row leaves the store only with   *)
(* its thread.                                                             *)
(***************************************************************************)
C25_Surviving ==
  SelectSeq(messages, LAMBDA row : row.thread_id \in DOMAIN threads')

C25_TurnsImmutable ==
  [][\/ messages' = messages
     \/ /\ Len(messages') = Len(messages) + 1
        /\ SubSeq(messages', 1, Len(messages)) = messages
        /\ DOMAIN threads' = DOMAIN threads
     \/ /\ DOMAIN threads' # DOMAIN threads
        /\ DOMAIN threads' \subseteq DOMAIN threads
        /\ messages' = C25_Surviving]_vars

\* A chat call wrote both rows of a turn pair, and afterwards the owner's
\* PATCH of the thread succeeded: the thread changed, its two rows did not.
C25_Witness ==
  \E c \in Slots :
    LET r == call[c] IN
    /\ r.fin = "done" /\ r.inserted /\ r.finInserted
    /\ reply.op = "patch" /\ reply.status = 200 /\ reply.id = r.threadId
    /\ \E i, j \in 1 .. Len(messages) :
         /\ i < j
         /\ messages[i] = UserRow(r)
         /\ messages[j] = AssistantRow(r)

(***************************************************************************)
(* C26.  The title synthesizer is invoked at most once per thread: no two  *)
(* chat calls on the same thread both invoke it.                           *)
(***************************************************************************)
C26_TitleOncePerThread ==
  \A c, d \in Slots :
    ( c # d /\ call[c].titled /\ call[d].titled ) =>
      call[c].threadId # call[d].threadId

(***************************************************************************)
(* C27.  Cleanup with no concurrent writer: the threads it removes are     *)
(* exactly the caller's threads that have no rows and whose count was      *)
(* read, it removes no row and changes no other thread, and the number in  *)
(* its answer is the number of threads it removed.  A cleanup that is not  *)
(* answered 200 removes nothing.                                           *)
(***************************************************************************)
C27_Answered ==
  reply'.op = "cleanup" /\ reply'.pc = "done" /\ reply' # reply

C28_CurrentEmpty ==
  /\ ui.currentThreadId \in DOMAIN threads
  /\ CountMessages(ui.currentThreadId) = 0
  /\ ~ui.currentThreadHasMessages
  /\ ui.sentThread # ui.currentThreadId

C28_NewChatOnEmptyDoesNothing ==
  [][( ui'.clicks # ui.clicks /\ C28_CurrentEmpty ) =>
       /\ DOMAIN threads' = DOMAIN threads
       /\ ui'.creating = ui.creating]_vars

(***************************************************************************)
(* C29.  In the chat UI, when handleSelectThread completes for a switch    *)
(* away from a current thread that has no messages, that thread no longer  *)
(* exists.                                                                 *)
(***************************************************************************)
C29_SwitchDeletesEmptyThread ==
  [][\A f \in ui.fetching \ ui'.fetching :
       ( /\ f.prev \in DOMAIN threads
         /\ f.prev # f.id
         /\ CountMessages(f.prev) = 0
         /\ ui.sentThread # f.prev ) =>
       f.prev \notin DOMAIN threads']_vars

(***************************************************************************)
(* C30.  In the chat UI the model locks once the first message is sent: no *)
(* user action changes the model of a thread that holds a message, and the *)
(* model picker is disabled whenever the current thread holds a message.   *)
(***************************************************************************)
C30_PickerDisabledWithMessages ==
  []( ( ui.currentThreadId \in DOMAIN threads
        /\ CountMessages(ui.currentThreadId) > 0 ) => PickerDisabled )

C30_NoPatchWithMessages ==
  [][\A t \in DOMAIN threads \cap DOMAIN threads' :
       ( ui'.clicks # ui.clicks /\ threads'[t] # threads[t] ) =>
         CountMessages(t) = 0]_vars

C30_ModelLockedInUi ==
  C30_PickerDisabledWithMessages /\ C30_NoPatchWithMessages

(***************************************************************************)
(* C31.  A failed count read never spoils a sequence number: a row written *)
(* by a call whose count read failed still carries the number of rows its  *)
(* thread held when it was written, so no row with sequence_index 0 lies   *)
(* behind an earlier row of its thread.                                    *)
(***************************************************************************)
C31_CountFailed(j) ==
  \E c \in Slots :
    /\ call[c].id # 0 /\ messages[j].by = call[c].id
    /\ IF messages[j].role = "user" THEN call[c].count.error
                                    ELSE call[c].finCount.error

C31_FailedCountKeepsSequence ==
  \A j \in 1 .. Len(messages) :
    /\ C31_CountFailed(j) => messages[j].sequence_index = RowsBefore(j)
    /\ messages[j].sequence_index = 0 => RowsBefore(j) = 0

(***************************************************************************)
(* C32.  Cleanup never destroys a turn: the step in which cleanup issues   *)
(* its delete removes no thread that holds a row at that moment, and so    *)
(* removes no row, whatever chat steps ran since cleanup counted.          *)
(***************************************************************************)
C32_CleanupKeepsTurns ==
  [][( reply.op = "cleanup" /\ reply.pc = "delete" /\ reply'.pc = "done" ) =>
       /\ \A t \in DOMAIN threads :
            CountMessages(t) > 0 => t \in DOMAIN threads'
       /\ messages' = messages]_vars

(***************************************************************************)
(* C33.  A thread created by handleNewThread is hidden from the sidebar    *)
(* only while it is the new chat: once it holds a message and another      *)
(* thread is current, it eventually appears in the sidebar (it is in the   *)
(* loaded list and is not the hidden thread).                              *)
(***************************************************************************)
C33_InSidebar(t) ==
  t \in ui.threads /\ t # ui.hiddenThreadId

C33_Promoted(t) ==
  /\ t \in DOMAIN threads /\ CountMessages(t) > 0
  /\ t # "t1"
  /\ ui.currentThreadId \notin {NoId, t}

C33_PromotedThreadAppears ==
  \A t \in ThreadIds : C33_Promoted(t) ~> C33_InSidebar(t)

(***************************************************************************)
(* C34.  When a send fails, by a response that is not OK or by a stream    *)
(* error after text-delta events were applied, the local message list is   *)
(* again the list before the send; and isRunning is false whenever no send *)
(* is in flight.                                                           *)
(***************************************************************************)
C34_FailedSendRestoresList ==
  /\ chat.outcome = "failed" => chat.messages = chat.before
  /\ chat.pc = "idle" => ~chat.isRunning

\* The same for sends that fail before any text-delta was applied.
C34_FailedBeforeTextRestoresList ==
  ( chat.outcome = "failed" /\ chat.assistantText = EmptyText ) =>
    chat.messages = chat.before

(***************************************************************************)
(* C35.  For a stream that completes normally, the text the reader has     *)
(* assembled when the stream ends is the concatenation of the increments   *)
(* the server emitted, however the transport cut the bytes into reads.     *)
(***************************************************************************)
C35_ReaderAssemblesAllText ==
  chat.outcome = "complete" => chat.assistantText = Flatten(chat.emitted)

(***************************************************************************)
(* C36.  When the user switches threads while a history load is in flight, *)
(* the response of the earlier load is discarded: the messages shown are   *)
(* always the history fetched for the current thread, each of them a row   *)
(* of that thread, in whatever order the fetches complete.                 *)
(***************************************************************************)
C36_StaleHistoryDiscarded ==
  /\ chat.threadId = ui.currentThreadId
  /\ chat.loaded =>
       /\ chat.shownOf = ui.currentThreadId
       /\ \A k \in 1 .. Len(chat.initialMessages) :
            \E i \in 1 .. Len(messages) :
              /\ messages[i].thread_id = ui.currentThreadId
              /\ messages[i].role = chat.initialMessages[k].role
              /\ LoadedContent(messages[i].content) = chat.initialMessages[k].content
  /\ \A l \in chat.loads : ~l.isCancelled => l.threadId = ui.currentThreadId

\* The user switched from the new chat t2, in which a message was sent, to
\* t1 while the load of t2 was in flight; the load of t1 was applied and
\* the response of the load of t2 arrived and was discarded.
C36_Witness ==
  /\ chat.discarded /\ chat.loads = {}
  /\ chat.loaded /\ chat.shownOf = "t1" /\ ui.currentThreadId = "t1"
  /\ chat.initialMessages = MyMessages(EarlierRows)
  /\ CountMessages("t2") > 0

====
